---- MODULE Spec2Model ----
(***************************************************************************)
(* Model of the R1000 segmented-heap analyser                              *)
(* (autoarchaeologist/rational/r1k_seg_heap.py): the 4-bit radix tree      *)
(* TreeNode, the chunk engine R1kSegHeap (header validation, seeding, cut, *)
(* ponder, render) and the intermediate output file.                       *)
(*                                                                         *)
(* Bit offsets and lengths keep their real values (0x80, 0x7f, 0xfff ...). *)
(* A chunk's bit string is represented by the half-open range [lo, hi) of  *)
(* the artifact's bitstream that it holds; slicing is computed on that     *)
(* range with Python's clamping semantics.                                 *)
(***************************************************************************)
EXTENDS Integers, Sequences, FiniteSets, TLC

\* ------------------------------------------------------------------ bounds

\* Largest number of cut calls made by the dissectors of one analysis
MaxCuts == 1

\* ------------------------------------------------------- program constants

HeadBits  == 128          \* 0x80, length of the heap head
EndPad    == 127          \* 0x7f, end = first_free_bit + 0x7f
LowMask   == 4095         \* 0xfff
SizeCeil  == 1048576      \* 1 << 20, artifacts above this are skipped
HuntCeil  == 100000       \* artifacts above this get no string hunting
LinkPackAt == 128         \* mkcut(0x80) of the link-pack dispatch
HeaderBytes == 16         \* this[:16], the bytes the header is read from
HeaderWord == 32          \* bits of one header field

None == -1                \* Python's None for offsets and chunk handles
NoOwner == "None"         \* chunk.owner of a chunk without owner

ExcludedNotes == {"74_tag", "75_tag", "81_tag", "83_tag", "84_tag",
                  "e3_tag", "R1k6ZERO"}

Min(a, b) == IF a < b THEN a ELSE b
Max(a, b) == IF a > b THEN a ELSE b

RECURSIVE Pow2(_)
Pow2(n) == IF n = 0 THEN 1 ELSE 2 * Pow2(n - 1)

\* ------------------------------------------------------------- bit strings

\* a Python string of bits, held as the range [lo, hi) of the bitstream
BitsLen(b) == b.hi - b.lo

\* b[:i] for i >= 0
BitsPrefix(b, i) == [lo |-> b.lo, hi |-> Min(b.lo + i, b.hi)]

\* b[i:] for i >= 0
BitsSuffix(b, i) == [lo |-> Min(b.lo + i, b.hi), hi |-> b.hi]

\* bittools.R1kSegChunk(begin, bits)
R1kSegChunk(begin, bits) == [begin |-> begin, bits |-> bits, owner |-> NoOwner]

\* len(chunk)
ChunkLen(c) == BitsLen(c.bits)

\* ---------------------------------------------------------------- TreeNode

NoBranch      == [k |-> "none"]
Leaf(v, p)    == [k |-> "leaf", off |-> v, ch |-> p]
SubTree(n)    == [k |-> "node", n |-> n]

\* TreeNode.__init__
TreeNode(shift) == [shift |-> shift, branches |-> [i \in 0..15 |-> NoBranch]]

\* a tree that does not exist (before seeding, after del self.tree)
NoTree == [shift |-> None, branches |-> <<>>]

\* (value >> shift) & 0xf, for shift >= 0
Slot(value, shift) == (value \div Pow2(shift)) % 16

\* TreeNode.__iter__ : the leaves in branch order
RECURSIVE TreeIter(_)
RECURSIVE TreeIterFrom(_, _)
TreeIterFrom(node, i) ==
    IF i > 15 THEN <<>>
    ELSE LET j == node.branches[i]
             here == IF j.k = "none" THEN <<>>
                     ELSE IF j.k = "node" THEN TreeIter(j.n)
                     ELSE << <<j.off, j.ch>> >>
         IN  here \o TreeIterFrom(node, i + 1)
TreeIter(node) == IF node.shift = None THEN <<>> ELSE TreeIterFrom(node, 0)

\* TreeNode.insert; err is set when value >> shift raises ValueError
\* (negative shift count), the node is then left as the code leaves it
RECURSIVE TreeInsert(_, _, _)
TreeInsert(node, value, payload) ==
    IF node.shift < 0 THEN [err |-> TRUE, node |-> node]
    ELSE
    LET i == Slot(value, node.shift)
        j == node.branches[i]
    IN  IF j.k = "none"
        THEN [err |-> FALSE,
              node |-> [node EXCEPT !.branches[i] = Leaf(value, payload)]]
        ELSE IF j.k = "node"
        THEN LET r == TreeInsert(j.n, value, payload)
             IN  [err |-> r.err,
                  node |-> [node EXCEPT !.branches[i] = SubTree(r.node)]]
        ELSE LET r1 == TreeInsert(TreeNode(node.shift - 4), j.off, j.ch)
                 r2 == TreeInsert(r1.node, value, payload)
             IN  IF r1.err
                 THEN [err |-> TRUE,
                       node |-> [node EXCEPT !.branches[i] = SubTree(r1.node)]]
                 ELSE [err |-> r2.err,
                       node |-> [node EXCEPT !.branches[i] = SubTree(r2.node)]]

\* TreeNode.delete without "assert j[1] == payload"
RECURSIVE TreeDelete_AnyPayload(_, _, _)
TreeDelete_AnyPayload(node, value, payload) ==
    LET i == Slot(value, node.shift)
        j == node.branches[i]
    IN  IF j.k = "none" THEN [err |-> TRUE, node |-> node]
        ELSE IF j.k = "node"
        THEN LET r == TreeDelete_AnyPayload(j.n, value, payload)
             IN  [err |-> r.err,
                  node |-> [node EXCEPT !.branches[i] = SubTree(r.node)]]
        ELSE IF j.off # value
        THEN [err |-> TRUE, node |-> node]
        ELSE [err |-> FALSE, node |-> [node EXCEPT !.branches[i] = NoBranch]]

\* TreeNode.delete; err is set when one of its assertions fails
RECURSIVE TreeDelete(_, _, _)
TreeDelete(node, value, payload) ==
    LET i == Slot(value, node.shift)
        j == node.branches[i]
    IN  IF j.k = "none" THEN [err |-> TRUE, node |-> node]
        ELSE IF j.k = "node"
        THEN LET r == TreeDelete(j.n, value, payload)
             IN  [err |-> r.err,
                  node |-> [node EXCEPT !.branches[i] = SubTree(r.node)]]
        ELSE IF j.off # value \/ j.ch # payload
        THEN [err |-> TRUE, node |-> node]
        ELSE [err |-> FALSE, node |-> [node EXCEPT !.branches[i] = NoBranch]]

NoneNone == [off |-> None, ch |-> None]

\* TreeNode.last : scan the branches from 15 down to 0
RECURSIVE TreeLast(_)
RECURSIVE TreeLastFrom(_, _)
TreeLastFrom(node, i) ==
    IF i < 0 THEN NoneNone
    ELSE LET j == node.branches[i]
         IN  IF j.k = "none" THEN TreeLastFrom(node, i - 1)
             ELSE IF j.k = "node"
             THEN LET r == TreeLast(j.n)
                  IN  IF r.off # None THEN r ELSE TreeLastFrom(node, i - 1)
             ELSE [off |-> j.off, ch |-> j.ch]
TreeLast(node) == TreeLastFrom(node, 15)

\* the "while i >= 0" loop of TreeNode.find over the lower siblings
RECURSIVE TreeFindBelow(_, _, _)
TreeFindBelow(node, value, i) ==
    IF i < 0 THEN NoneNone
    ELSE LET j == node.branches[i]
         IN  IF j.k = "none" THEN TreeFindBelow(node, value, i - 1)
             ELSE IF j.k = "node"
             THEN LET r == TreeLast(j.n)
                  IN  IF r.off # None THEN r
                      ELSE TreeFindBelow(node, value, i - 1)
             ELSE IF j.off <= value THEN [off |-> j.off, ch |-> j.ch]
             ELSE TreeFindBelow(node, value, i - 1)

\* TreeNode.find
RECURSIVE TreeFind(_, _)
TreeFind(node, value) ==
    LET i == Slot(value, node.shift)
        j == node.branches[i]
    IN  IF j.k = "none" THEN TreeFindBelow(node, value, i - 1)
        ELSE IF j.k = "node"
        THEN LET r == TreeFind(j.n, value)
             IN  IF r.off # None THEN r
                 ELSE TreeFindBelow(node, value, i - 1)
        ELSE IF j.off <= value THEN [off |-> j.off, ch |-> j.ch]
        ELSE TreeFindBelow(node, value, i - 1)

\* -------------------------------------------------------------- R1kSegHeap

\* dict.get and item assignment on self.starts
StartsGet(st, k) == IF k \in DOMAIN st THEN st[k] ELSE None
StartsSet(st, k, v) ==
    [o \in (DOMAIN st) \cup {k} |-> IF o = k THEN v ELSE st[o]]

\* The heap H is [tree, starts, chunks]; chunks is the sequence of all chunk
\* objects ever made, a chunk handle is its index.  The outcome of an
\* operation is the heap it leaves plus the exception raised ("" for none)
\* and the chunk returned.
Outcome(e, r, t, s, c) ==
    [exc |-> e, ret |-> r, tree |-> t, starts |-> s, chunks |-> c]
Raise(H, e)  == Outcome(e, None, H.tree, H.starts, H.chunks)
Return(H, c) == Outcome("", c, H.tree, H.starts, H.chunks)

\* SplitFront without "self.starts[newchunk.begin] = newchunk"
SplitFront_PrefixNotIndexed(H, c, where) ==
    LET ch       == H.chunks[c]
        d        == TreeDelete(H.tree, ch.begin, c)
        i        == where - ch.begin
        newchunk == R1kSegChunk(ch.begin, BitsPrefix(ch.bits, i))
        nid      == Len(H.chunks) + 1
        moved    == [ch EXCEPT !.bits = BitsSuffix(ch.bits, i),
                               !.begin = ch.begin + i]
        chunksM  == [H.chunks EXCEPT ![c] = moved]
        chunksN  == Append(chunksM, newchunk)
        starts1  == StartsSet(H.starts, moved.begin, c)
        ins1     == TreeInsert(d.node, moved.begin, c)
        ins2     == TreeInsert(ins1.node, newchunk.begin, nid)
    IN  IF d.err THEN Raise(H, "AssertionError")
        ELSE IF ChunkLen(moved) <= 0
        THEN Outcome("AssertionError", None, d.node, starts1, chunksM)
        ELSE IF ins1.err
        THEN Outcome("ValueError", None, ins1.node, starts1, chunksM)
        ELSE IF ChunkLen(newchunk) <= 0
        THEN Outcome("AssertionError", None, ins1.node, starts1, chunksN)
        ELSE IF ins2.err
        THEN Outcome("ValueError", None, ins2.node, starts1, chunksN)
        ELSE Outcome("", c, ins2.node, starts1, chunksN)

\* cut, the "if where > chunk.begin" block: split off the unwanted prefix
SplitFront(H, c, where) ==
    LET ch       == H.chunks[c]
        d        == TreeDelete(H.tree, ch.begin, c)
        i        == where - ch.begin
        newchunk == R1kSegChunk(ch.begin, BitsPrefix(ch.bits, i))
        nid      == Len(H.chunks) + 1
        moved    == [ch EXCEPT !.bits = BitsSuffix(ch.bits, i),
                               !.begin = ch.begin + i]
        chunksM  == [H.chunks EXCEPT ![c] = moved]
        chunksN  == Append(chunksM, newchunk)
        starts1  == StartsSet(H.starts, moved.begin, c)
        ins1     == TreeInsert(d.node, moved.begin, c)
        starts2  == StartsSet(starts1, newchunk.begin, nid)
        ins2     == TreeInsert(ins1.node, newchunk.begin, nid)
    IN  IF d.err THEN Raise(H, "AssertionError")
        ELSE IF ChunkLen(moved) <= 0
        THEN Outcome("AssertionError", None, d.node, starts1, chunksM)
        ELSE IF ins1.err
        THEN Outcome("ValueError", None, ins1.node, starts1, chunksM)
        ELSE IF ChunkLen(newchunk) <= 0
        THEN Outcome("AssertionError", None, ins1.node, starts2, chunksN)
        ELSE IF ins2.err
        THEN Outcome("ValueError", None, ins2.node, starts2, chunksN)
        ELSE Outcome("", c, ins2.node, starts2, chunksN)

\* SplitBack returning the remainder "chunk" where the code returns
\* "newchunk"
SplitBack_ReturnsRest(H, c, length) ==
    LET ch       == H.chunks[c]
        d        == TreeDelete(H.tree, ch.begin, c)
        newchunk == R1kSegChunk(ch.begin, BitsPrefix(ch.bits, length))
        nid      == Len(H.chunks) + 1
        chunksN  == Append(H.chunks, newchunk)
        starts1  == StartsSet(H.starts, newchunk.begin, nid)
        ins1     == TreeInsert(d.node, newchunk.begin, nid)
        moved    == [ch EXCEPT !.bits = BitsSuffix(ch.bits, length),
                               !.begin = ch.begin + length]
        chunksM  == [chunksN EXCEPT ![c] = moved]
        starts2  == StartsSet(starts1, moved.begin, c)
        ins2     == TreeInsert(ins1.node, moved.begin, c)
    IN  IF d.err THEN Raise(H, "AssertionError")
        ELSE IF ChunkLen(newchunk) <= 0
        THEN Outcome("AssertionError", None, d.node, starts1, chunksN)
        ELSE IF ins1.err
        THEN Outcome("ValueError", None, ins1.node, starts1, chunksN)
        ELSE IF ChunkLen(moved) <= 0
        THEN Outcome("AssertionError", None, ins1.node, starts2, chunksM)
        ELSE IF ins2.err
        THEN Outcome("ValueError", None, ins2.node, starts2, chunksM)
        ELSE Outcome("", c, ins2.node, starts2, chunksM)

\* SplitBack with "chunk.bits = chunk.bits[length + 1:]": one bit is lost
\* between the two pieces
SplitBack_DropsBit(H, c, length) ==
    LET ch       == H.chunks[c]
        d        == TreeDelete(H.tree, ch.begin, c)
        newchunk == R1kSegChunk(ch.begin, BitsPrefix(ch.bits, length))
        nid      == Len(H.chunks) + 1
        chunksN  == Append(H.chunks, newchunk)
        starts1  == StartsSet(H.starts, newchunk.begin, nid)
        ins1     == TreeInsert(d.node, newchunk.begin, nid)
        moved    == [ch EXCEPT !.bits = BitsSuffix(ch.bits, length + 1),
                               !.begin = ch.begin + length]
        chunksM  == [chunksN EXCEPT ![c] = moved]
        starts2  == StartsSet(starts1, moved.begin, c)
        ins2     == TreeInsert(ins1.node, moved.begin, c)
    IN  IF d.err THEN Raise(H, "AssertionError")
        ELSE IF ChunkLen(newchunk) <= 0
        THEN Outcome("AssertionError", None, d.node, starts1, chunksN)
        ELSE IF ins1.err
        THEN Outcome("ValueError", None, ins1.node, starts1, chunksN)
        ELSE IF ChunkLen(moved) <= 0
        THEN Outcome("AssertionError", None, ins1.node, starts2, chunksM)
        ELSE IF ins2.err
        THEN Outcome("ValueError", None, ins2.node, starts2, chunksM)
        ELSE Outcome("", nid, ins2.node, starts2, chunksM)

\* cut, from "self.tree.delete(chunk.begin, chunk)" to "return newchunk":
\* split the wanted prefix off the chunk
SplitBack(H, c, length) ==
    LET ch       == H.chunks[c]
        d        == TreeDelete(H.tree, ch.begin, c)
        newchunk == R1kSegChunk(ch.begin, BitsPrefix(ch.bits, length))
        nid      == Len(H.chunks) + 1
        chunksN  == Append(H.chunks, newchunk)
        starts1  == StartsSet(H.starts, newchunk.begin, nid)
        ins1     == TreeInsert(d.node, newchunk.begin, nid)
        moved    == [ch EXCEPT !.bits = BitsSuffix(ch.bits, length),
                               !.begin = ch.begin + length]
        chunksM  == [chunksN EXCEPT ![c] = moved]
        starts2  == StartsSet(starts1, moved.begin, c)
        ins2     == TreeInsert(ins1.node, moved.begin, c)
    IN  IF d.err THEN Raise(H, "AssertionError")
        ELSE IF ChunkLen(newchunk) <= 0
        THEN Outcome("AssertionError", None, d.node, starts1, chunksN)
        ELSE IF ins1.err
        THEN Outcome("ValueError", None, ins1.node, starts1, chunksN)
        ELSE IF ChunkLen(moved) <= 0
        THEN Outcome("AssertionError", None, ins1.node, starts2, chunksM)
        ELSE IF ins2.err
        THEN Outcome("ValueError", None, ins2.node, starts2, chunksM)
        ELSE Outcome("", nid, ins2.node, starts2, chunksM)

\* the chunk cut works on: self.starts.get(where), else self.tree.find(where)
\* under the four assertions that follow it; None when one of them fails
CutLookup(H, where) ==
    LET t == StartsGet(H.starts, where)
        f == TreeFind(H.tree, where)
    IN  IF t # None THEN t
        ELSE IF f.off = None THEN None
        ELSE IF f.off # H.chunks[f.ch].begin THEN None
        ELSE IF ~(H.chunks[f.ch].begin <= where) THEN None
        ELSE IF ~(H.chunks[f.ch].begin + ChunkLen(H.chunks[f.ch]) > where)
        THEN None
        ELSE f.ch

\* CutChunk without "if chunk.owner: raise bittools.MisFit(...)"
CutChunk_OwnedToo(H, c, where, length) ==
    LET ch == H.chunks[c]
    IN  IF ch.begin = where /\ length \in {-1, ChunkLen(ch)}
        THEN Return(H, c)
        ELSE
        LET F == IF where > ch.begin THEN SplitFront(H, c, where)
                 ELSE Return(H, c)
        IN  IF F.exc # "" THEN F
            ELSE IF length \in {-1, ChunkLen(F.chunks[c])} THEN Return(F, c)
            ELSE IF length > ChunkLen(F.chunks[c]) THEN Raise(F, "MisFit")
            ELSE SplitBack(F, c, length)

\* cut, from "if chunk.owner" on
CutChunk(H, c, where, length) ==
    LET ch == H.chunks[c]
    IN  IF ch.owner # NoOwner THEN Raise(H, "MisFit")
        ELSE IF ch.begin = where /\ length \in {-1, ChunkLen(ch)}
        THEN Return(H, c)
        ELSE
        LET F == IF where > ch.begin THEN SplitFront(H, c, where)
                 ELSE Return(H, c)
        IN  IF F.exc # "" THEN F
            ELSE IF length \in {-1, ChunkLen(F.chunks[c])} THEN Return(F, c)
            ELSE IF length > ChunkLen(F.chunks[c]) THEN Raise(F, "MisFit")
            ELSE SplitBack(F, c, length)

\* R1kSegHeap.cut(where, length)
Cut(H, e, where, length) ==
    IF ~(where # 0 \/ length = HeadBits) THEN Raise(H, "AssertionError")
    ELSE IF where >= e THEN Raise(H, "MisFit")
    ELSE LET c == CutLookup(H, where)
         IN  IF c = None THEN Raise(H, "AssertionError")
             ELSE IF StartsGet(H.starts, H.chunks[c].begin) # c
             THEN Raise(H, "AssertionError")
             ELSE CutChunk(H, c, where, length)

\* R1kSegHeap.mkcut(idx); called is whether it went on to call cut
MkCut(H, e, idx) ==
    LET t == StartsGet(H.starts, idx)
    IN  IF t # None THEN [called |-> FALSE, out |-> Return(H, t)]
        ELSE [called |-> TRUE, out |-> Cut(H, e, idx, -1)]

\* the loop of __init__ that picks the root shift from alloced_bits
RECURSIVE RootShift(_)
RootShift(i) == IF i > 15 THEN 4 + RootShift(i \div 16) ELSE 0

\* ------------------------------------------------------------------ inputs

\* The artifacts analysed: length in bytes, notes, the four header fields
\* decoded from the first 16 bytes (x = first_free_bit, y = max_bits,
\* zero, z = alloced_bits; a field the artifact is too short to hold has no
\* value) and whether bytes 0x10..0x24 hold the link-pack signature.
LenVals  == {8, 512, 1024, HuntCeil + 1, SizeCeil + 1}
NoteSets == {{}, {"R1k_Segment"}, {"R1k_Segment", "97_tag"},
             {"R1k_Segment", "97_tag", "e3_tag"}}
XVals    == {0, 1, 256, 4095, 8192}
YVals    == {4095, 4096}
ZeroVals == {0, 1}
ZVals    == {4095, 8191, 8190}

Artifacts ==
    [len : LenVals, notes : NoteSets, x : XVals, y : YVals,
     zero : ZeroVals, z : ZVals, linkpack : BOOLEAN]

\* where and length arguments the dissectors pass to cut and mkcut
CutOffsets == {0, 128, 144, 4096}
CutLengths == {-1, 0, 16, 128}

\* ------------------------------------------------------------------- state

VARIABLES
    art,        \* the artifact ("this")
    pc,         \* where the analysis stands
    end,        \* self.end
    tree,       \* self.tree
    starts,     \* self.starts
    chunks,     \* the chunk objects, by handle
    tfile,      \* the handle self.tfile: "none", "open", "closed"
    fexists,    \* whether the file self.tfn.filename is on disk
    interp,     \* whether this.add_interpretation has been called
    log,        \* what has been printed
    exc,        \* the exception that left __init__, "" if none
    who,        \* the dissector or heuristic now running
    invoked,    \* the dissectors and heuristics invoked so far
    passes,     \* the heuristic passes of ponder begun so far
    snap,       \* the rest of the copied chunk list of the running pass
    held,       \* the chunk the running dissector got last
    ncuts,      \* number of calls of cut so far
    call,       \* the last call of cut: arguments and outcome
    out         \* what render_chunks wrote: <<offset, chunk, owner>> each

\* the locals prev_line and pending of OctetView.render when they are None
NoLine == <<None>>
NoPending == "None"

\* the state of one OctetView.render (octetview.py)
VARIABLES
    octets,     \* the bytes of the artifact the view is over ("this")
    leaves,     \* the leaves of the view's tree, in address order
    keys,       \* the records of the artifact that have a key: <<lo, key>>
    pad_width,  \* the default_width argument of render
    rpc,        \* where the rendering stands
    separators, \* self.separators
    todo,       \* what iter_padded has still to yield
    prev_line,  \* the local prev_line
    repeat_line,\* the local repeat_line
    pending,    \* the local pending
    lines       \* the lines render has yielded

hvars == <<art, pc, end, tree, starts, chunks, tfile, fexists, interp, log,
           exc, who, invoked, passes, snap, held, ncuts, call, out>>

rvars == <<octets, leaves, keys, pad_width, rpc, separators, todo, prev_line,
           repeat_line, pending, lines>>

\* the name argument of add_field when it is None
NoName == <<>>

NoStruct == [lo |-> None, hi |-> None, fields |-> <<>>, hasargs |-> FALSE,
             args |-> {}, ov_name |-> FALSE, vertical |-> FALSE,
             cls |-> "Struct"]

\* the state of one Struct and of the last call made on it
VARIABLES
    struct,     \* the Struct object
    spc,        \* "new" before the constructor, "built" after, "failed"
    scall,      \* the last call: [op, pad, what, exc, ret]
    ncalls,     \* number of calls made after the constructor
    finalized   \* whether a call of done has completed

svars == <<struct, spc, scall, ncalls, finalized>>

NoSCall == [op |-> "none", pad |-> 0, what |-> NoName, exc |-> "",
            ret |-> <<>>]

\* no struct is being built
NoStructs ==
    /\ struct = NoStruct
    /\ spc = "off"
    /\ scall = NoSCall
    /\ ncalls = 0
    /\ finalized = FALSE

\* the state of one decoding of a four-byte field
VARIABLES
    mem,        \* tree.this, the bytes decoded from
    dlo,        \* lo, the offset of the field
    dcls,       \* the class instantiated: "Be32", "Le32", "L2301", "L1032"
    dval        \* self.val, as the bits of a Python int, lowest first

dvars == <<mem, dlo, dcls, dval>>

\* no field is being decoded
NoDecodes ==
    /\ mem = <<>>
    /\ dlo = 0
    /\ dcls = "off"
    /\ dval = <<>>

\* the variables of the byte-level toolkit, which the heap analysis leaves
\* alone
ovvars == <<rvars, svars, dvars>>

\* the state of pointer hunting on a heap
VARIABLES
    stream,     \* the artifact's bits: the set of positions holding a 1
    orphans,    \* what hunt_orphans has reported
    nparts,     \* number of cuts made on the heap before the hunt
    hpc         \* "ponder" while the heap is being cut, then "hunted"

pvars == <<stream, orphans, nparts, hpc>>

\* no pointer hunting is asked for
NoHunt ==
    /\ stream = {}
    /\ orphans = <<>>
    /\ nparts = 0
    /\ hpc = "off"

\* the state of one TreeNode tree worked on by insert and delete
VARIABLES
    ttree,      \* the root TreeNode
    tcall,      \* the last call: [op, value, payload, exc]
    nops,       \* number of calls made
    tpc         \* "run", "raised" once insert has raised ValueError

tvars == <<ttree, tcall, nops, tpc>>

NoTCall == [op |-> "none", value |-> None, payload |-> None, exc |-> ""]

\* no tree is worked on by itself
NoTrees ==
    /\ ttree = NoTree
    /\ tcall = NoTCall
    /\ nops = 0
    /\ tpc = "off"

vars == <<hvars, ovvars, pvars, tvars>>

Heap == [tree |-> tree, starts |-> starts, chunks |-> chunks]

NoCall == [where |-> None, length |-> None, exc |-> "", ret |-> None]

HeapInit ==
    /\ art \in Artifacts
    /\ pc = "start"
    /\ end = None
    /\ tree = NoTree
    /\ starts = <<>>
    /\ chunks = <<>>
    /\ tfile = "none"
    /\ fexists = FALSE
    /\ interp = FALSE
    /\ log = <<>>
    /\ exc = ""
    /\ who = "nobody"
    /\ invoked = {}
    /\ passes = <<>>
    /\ snap = <<>>
    /\ held = None
    /\ ncuts = 0
    /\ call = NoCall
    /\ out = <<>>

\* no view is being rendered
NoView ==
    /\ octets = <<>>
    /\ leaves = <<>>
    /\ keys = <<>>
    /\ pad_width = None
    /\ rpc = "off"
    /\ separators = None
    /\ todo = <<>>
    /\ prev_line = NoLine
    /\ repeat_line = 0
    /\ pending = NoPending
    /\ lines = <<>>

Init == HeapInit /\ NoView /\ NoStructs /\ NoDecodes /\ NoHunt /\ NoTrees

\* ---------------------------------------------------------------- __init__

\* the early returns of __init__ before the header is read: size and notes
Skips(a) ==
    \/ a.len > SizeCeil
    \/ "R1k_Segment" \notin a.notes
    \/ a.notes \cap ExcludedNotes # {}

\* len(bits[32*k : 32*k+32]) for bits = the bits of this[:16]
FieldBits(a, k) == Min(HeaderWord, Max(0, 8 * Min(a.len, HeaderBytes) - HeaderWord * k))

\* int(..., 2) of an empty string raises ValueError: the fields are read in
\* the order x, y, zero, z and a nonzero zero field returns before z is read
DecodeFails(a) ==
    \/ FieldBits(a, 0) = 0
    \/ FieldBits(a, 1) = 0
    \/ FieldBits(a, 2) = 0
    \/ a.zero = 0 /\ FieldBits(a, 3) = 0

\* the early returns of __init__: size, notes, header checks
Rejects(a) ==
    \/ Skips(a)
    \/ /\ ~DecodeFails(a)
       /\ \/ a.zero # 0
          \/ a.x > a.z
          \/ a.y % (LowMask + 1) # LowMask
          \/ a.z % (LowMask + 1) # LowMask

\* this[0x10:0x24].tobytes() == b'This is a Link Pack.'
HasLinkPack(a) == a.linkpack /\ a.len >= 36

\* the heap after cut: the three heap variables take the outcome's values
HeapBecomes(r) ==
    /\ tree' = r.tree
    /\ starts' = r.starts
    /\ chunks' = r.chunks

\* bookkeeping of one call of cut
Called(where, length, r) ==
    /\ ncuts' = ncuts + 1
    /\ call' = [where |-> where, length |-> length, exc |-> r.exc,
                ret |-> r.ret]

\* Reject with the header checks placed after the open of the
\* intermediate file
Reject_AfterOpen ==
    /\ UNCHANGED <<ovvars, pvars, tvars>>
    /\ pc = "start"
    /\ Rejects(art)
    /\ pc' = "rejected"
    /\ tfile' = IF Skips(art) THEN tfile ELSE "open"
    /\ fexists' = IF Skips(art) THEN fexists ELSE TRUE
    /\ UNCHANGED <<art, end, tree, starts, chunks, interp,
                   log, exc, who, invoked, passes, snap, held, ncuts, call,
                   out>>

Reject ==
    /\ UNCHANGED <<ovvars, pvars, tvars>>
    /\ pc = "start"
    /\ Rejects(art)
    /\ pc' = "rejected"
    /\ UNCHANGED <<art, end, tree, starts, chunks, tfile, fexists, interp,
                   log, exc, who, invoked, passes, snap, held, ncuts, call,
                   out>>

\* reading a header field the artifact is too short to hold raises
\* ValueError, which leaves __init__
HeaderDecodeFails ==
    /\ UNCHANGED <<ovvars, pvars, tvars>>
    /\ pc = "start"
    /\ ~Skips(art)
    /\ DecodeFails(art)
    /\ pc' = "raised"
    /\ exc' = "ValueError"
    /\ UNCHANGED <<art, end, tree, starts, chunks, tfile, fexists, interp,
                   log, who, invoked, passes, snap, held, ncuts, call, out>>

\* __init__ from "i = z" to the open of the intermediate file
Seed ==
    /\ UNCHANGED <<ovvars, pvars, tvars>>
    /\ pc = "start"
    /\ ~Rejects(art)
    /\ ~DecodeFails(art)
    /\ LET e     == art.x + EndPad
           chunk == R1kSegChunk(0, BitsPrefix([lo |-> 0, hi |-> 8 * art.len], e))
       IN  /\ end' = e
           /\ log' = Append(log, "?R1SH")
           /\ chunks' = <<chunk>>
           /\ IF ChunkLen(chunk) > 0
              THEN /\ tree' = TreeInsert(TreeNode(RootShift(art.z)), 0, 1).node
                   /\ starts' = StartsSet(<<>>, 0, 1)
                   /\ tfile' = "open"
                   /\ fexists' = TRUE
                   /\ pc' = "seeded"
                   /\ exc' = ""
              ELSE /\ tree' = TreeNode(RootShift(art.z))
                   /\ pc' = "raised"
                   /\ exc' = "AssertionError"
                   /\ UNCHANGED <<starts, tfile, fexists>>
    /\ UNCHANGED <<art, interp, who, invoked, passes, snap, held, ncuts, call,
                   out>>

\* self.head = HeapHead(self, self.cut(0x0, 0x80)); the HeapHead becomes
\* the owner of the chunk it is given
HeapHeadCut ==
    /\ UNCHANGED <<ovvars, pvars, tvars>>
    /\ pc = "seeded"
    /\ \E r \in {Cut(Heap, end, 0, HeadBits)} :
           /\ Called(0, HeadBits, r)
           /\ tree' = r.tree
           /\ starts' = r.starts
           /\ IF r.exc = ""
              THEN /\ chunks' = [r.chunks EXCEPT ![r.ret].owner = "HeapHead"]
                   /\ pc' = "ponder"
                   /\ exc' = ""
              ELSE /\ chunks' = r.chunks
                   /\ pc' = "raised"
                   /\ exc' = r.exc
    /\ UNCHANGED <<art, end, tfile, fexists, interp, log, who, invoked,
                   passes, snap, held, out>>

\* ------------------------------------------------------------------ ponder

\* list(y for _x, y in self.tree)
ChunkList(t) == LET it == TreeIter(t) IN [i \in 1..Len(it) |-> it[i][2]]

\* an exception leaves ponder: "except Exception" of __init__ prints and
\* re-raises; the frames of the dissector and of ponder are gone
PonderFails(msgs, e) ==
    /\ log' = (log \o msgs) \o <<"PONDERING FAILED">>
    /\ pc' = "raised"
    /\ exc' = e
    /\ who' = "nobody"
    /\ snap' = <<>>
    /\ held' = None
    /\ UNCHANGED <<invoked, passes>>

\* ponder goes on to the first heuristic pass over a copy of the chunk list
\* of the tree t
StartArrayPass(msgs, t) ==
    /\ log' = log \o msgs
    /\ pc' = "hunt_array"
    /\ passes' = Append(passes, "hunt_array_strings")
    /\ snap' = ChunkList(t)
    /\ who' = "nobody"
    /\ held' = None
    /\ UNCHANGED <<exc, invoked>>

\* the link-pack branch of ponder up to the call of the dissector:
\* LinkPack.R1kSegLinkPack(self, self.mkcut(0x80))
PonderLinkPack ==
    /\ UNCHANGED <<ovvars, pvars, tvars>>
    /\ pc = "ponder"
    /\ HasLinkPack(art)
    /\ \E m \in {MkCut(Heap, end, LinkPackAt)} :
           /\ HeapBecomes(m.out)
           /\ IF m.called THEN Called(LinkPackAt, -1, m.out)
              ELSE UNCHANGED <<ncuts, call>>
           /\ IF m.out.exc = ""
              THEN /\ pc' = "dissect"
                   /\ who' = "LinkPack"
                   /\ invoked' = invoked \cup {"LinkPack"}
                   /\ held' = m.out.ret
                   /\ UNCHANGED <<log, exc, snap, passes>>
              ELSE IF m.out.exc = "MisFit"
              THEN PonderFails(<<"FAIL LINKPACK">>, "MisFit")
              ELSE PonderFails(<<>>, m.out.exc)
    /\ UNCHANGED <<art, end, tfile, fexists, interp, out>>

\* the '97 branch of ponder up to the call of seg97.R1kSeg97(self)
PonderSeg97 ==
    /\ UNCHANGED <<ovvars, pvars, tvars>>
    /\ pc = "ponder"
    /\ ~HasLinkPack(art)
    /\ "97_tag" \in art.notes
    /\ pc' = "dissect"
    /\ who' = "Seg97"
    /\ invoked' = invoked \cup {"Seg97"}
    /\ held' = None
    /\ UNCHANGED <<art, end, tree, starts, chunks, tfile, fexists, interp,
                   log, exc, passes, snap, ncuts, call, out>>

\* neither signature nor '97 note: ponder goes straight to the heuristics
PonderPlain ==
    /\ UNCHANGED <<ovvars, pvars, tvars>>
    /\ pc = "ponder"
    /\ ~HasLinkPack(art)
    /\ "97_tag" \notin art.notes
    /\ StartArrayPass(<<>>, tree)
    /\ UNCHANGED <<art, end, tree, starts, chunks, tfile, fexists, interp,
                   ncuts, call, out>>

\* ------------------------------------------- dissectors and heuristics
\* LinkPack.R1kSegLinkPack, seg97.R1kSeg97, bittools.hunt_array_strings and
\* bittools.hunt_strings use the heap through cut and mkcut, attach
\* themselves as owner of chunks they got, may fail with MisFit, and return.

\* an exception of cut other than MisFit passes through the dissector and
\* through ponder
DissectorGot(r) ==
    IF r.exc = ""
    THEN /\ held' = r.ret
         /\ UNCHANGED <<pc, who, invoked, passes, snap, log, exc>>
    ELSE IF r.exc = "MisFit"
    THEN UNCHANGED <<pc, who, invoked, passes, snap, log, exc, held>>
    ELSE PonderFails(<<>>, r.exc)

DissectorCut(where, length) ==
    /\ UNCHANGED <<ovvars, pvars, tvars>>
    /\ pc = "dissect"
    /\ ncuts <= MaxCuts
    /\ \E r \in {Cut(Heap, end, where, length)} :
           /\ HeapBecomes(r)
           /\ Called(where, length, r)
           /\ DissectorGot(r)
    /\ UNCHANGED <<art, end, tfile, fexists, interp, out>>

DissectorMkCut(idx) ==
    /\ UNCHANGED <<ovvars, pvars, tvars>>
    /\ pc = "dissect"
    /\ ncuts <= MaxCuts
    /\ \E m \in {MkCut(Heap, end, idx)} :
           /\ HeapBecomes(m.out)
           /\ IF m.called THEN Called(idx, -1, m.out)
              ELSE UNCHANGED <<ncuts, call>>
           /\ DissectorGot(m.out)
    /\ UNCHANGED <<art, end, tfile, fexists, interp, out>>

\* the running dissector becomes the owner of the chunk it holds
DissectorClaim ==
    /\ UNCHANGED <<ovvars, pvars, tvars>>
    /\ pc = "dissect"
    /\ held # None
    /\ chunks[held].owner = NoOwner
    /\ chunks' = [chunks EXCEPT ![held].owner = who]
    /\ UNCHANGED <<art, pc, end, tree, starts, tfile, fexists, interp, log,
                   exc, who, invoked, passes, snap, held, ncuts, call, out>>

\* DissectorMisFit with the "raise" of the link-pack handler left out:
\* the MisFit is printed and ponder returns
DissectorMisFit_LinkPackSwallowed ==
    /\ UNCHANGED <<ovvars, pvars, tvars>>
    /\ pc = "dissect"
    /\ IF who = "LinkPack"
       THEN /\ log' = Append(log, "FAIL LINKPACK")
            /\ pc' = "render"
            /\ who' = "nobody"
            /\ held' = None
            /\ UNCHANGED <<exc, invoked, passes, snap>>
       ELSE IF who = "Seg97" THEN StartArrayPass(<<"FAIL SEG97">>, tree)
       ELSE PonderFails(<<>>, "MisFit")
    /\ UNCHANGED <<art, end, tree, starts, chunks, tfile, fexists, interp,
                   ncuts, call, out>>

\* DissectorMisFit with a "raise" added to the '97 handler, as in the
\* link-pack handler
DissectorMisFit_Seg97Reraised ==
    /\ UNCHANGED <<ovvars, pvars, tvars>>
    /\ pc = "dissect"
    /\ IF who = "LinkPack" THEN PonderFails(<<"FAIL LINKPACK">>, "MisFit")
       ELSE IF who = "Seg97" THEN PonderFails(<<"FAIL SEG97">>, "MisFit")
       ELSE PonderFails(<<>>, "MisFit")
    /\ UNCHANGED <<art, end, tree, starts, chunks, tfile, fexists, interp,
                   ncuts, call, out>>

\* MisFit leaves the running dissector: ponder prints and re-raises for
\* the link pack, prints and goes on for the '97 segment, and has no
\* handler around the heuristics
DissectorMisFit ==
    /\ UNCHANGED <<ovvars, pvars, tvars>>
    /\ pc = "dissect"
    /\ IF who = "LinkPack" THEN PonderFails(<<"FAIL LINKPACK">>, "MisFit")
       ELSE IF who = "Seg97" THEN StartArrayPass(<<"FAIL SEG97">>, tree)
       ELSE PonderFails(<<>>, "MisFit")
    /\ UNCHANGED <<art, end, tree, starts, chunks, tfile, fexists, interp,
                   ncuts, call, out>>

\* DissectorReturn with the "return" after the link-pack dissector left
\* out: ponder falls through to the heuristics
DissectorReturn_LinkPackFallsThrough ==
    /\ UNCHANGED <<ovvars, pvars, tvars>>
    /\ pc = "dissect"
    /\ IF who \in {"LinkPack", "Seg97"} THEN StartArrayPass(<<>>, tree)
       ELSE /\ pc' = IF who = "ArrayString" THEN "hunt_array"
                     ELSE "hunt_strings"
            /\ who' = "nobody"
            /\ held' = None
            /\ UNCHANGED <<log, exc, invoked, passes, snap>>
    /\ UNCHANGED <<art, end, tree, starts, chunks, tfile, fexists, interp,
                   ncuts, call, out>>

\* the running dissector returns: ponder returns after the link pack,
\* goes on to the heuristics after the '97 segment, and goes on with the
\* loop after a heuristic
DissectorReturn ==
    /\ UNCHANGED <<ovvars, pvars, tvars>>
    /\ pc = "dissect"
    /\ IF who = "LinkPack"
       THEN /\ pc' = "render"
            /\ who' = "nobody"
            /\ held' = None
            /\ UNCHANGED <<log, exc, invoked, passes, snap>>
       ELSE IF who = "Seg97" THEN StartArrayPass(<<>>, tree)
       ELSE /\ pc' = IF who = "ArrayString" THEN "hunt_array"
                     ELSE "hunt_strings"
            /\ who' = "nobody"
            /\ held' = None
            /\ UNCHANGED <<log, exc, invoked, passes, snap>>
    /\ UNCHANGED <<art, end, tree, starts, chunks, tfile, fexists, interp,
                   ncuts, call, out>>

\* HuntArrayStep without "if not chunk.owner"
HuntArrayStep_OwnedToo ==
    /\ UNCHANGED <<ovvars, pvars, tvars>>
    /\ pc = "hunt_array"
    /\ IF snap # <<>>
       THEN /\ snap' = Tail(snap)
            /\ pc' = "dissect"
            /\ who' = "ArrayString"
            /\ invoked' = invoked \cup {"ArrayString"}
            /\ held' = Head(snap)
            /\ UNCHANGED passes
       ELSE IF art.len > HuntCeil
       THEN /\ pc' = "render"
            /\ UNCHANGED <<snap, who, invoked, held, passes>>
       ELSE /\ pc' = "hunt_strings"
            /\ passes' = Append(passes, "hunt_strings")
            /\ snap' = ChunkList(tree)
            /\ UNCHANGED <<who, invoked, held>>
    /\ UNCHANGED <<art, end, tree, starts, chunks, tfile, fexists, interp,
                   log, exc, ncuts, call, out>>

\* one turn of "for chunk in list(...): if not chunk.owner:
\* bittools.hunt_array_strings(self, chunk)", and what follows the loop
HuntArrayStep ==
    /\ UNCHANGED <<ovvars, pvars, tvars>>
    /\ pc = "hunt_array"
    /\ IF snap # <<>>
       THEN /\ snap' = Tail(snap)
            /\ IF chunks[Head(snap)].owner = NoOwner
               THEN /\ pc' = "dissect"
                    /\ who' = "ArrayString"
                    /\ invoked' = invoked \cup {"ArrayString"}
                    /\ held' = Head(snap)
               ELSE UNCHANGED <<pc, who, invoked, held>>
            /\ UNCHANGED passes
       ELSE IF art.len > HuntCeil
       THEN /\ pc' = "render"
            /\ UNCHANGED <<snap, who, invoked, held, passes>>
       ELSE /\ pc' = "hunt_strings"
            /\ passes' = Append(passes, "hunt_strings")
            /\ snap' = ChunkList(tree)
            /\ UNCHANGED <<who, invoked, held>>
    /\ UNCHANGED <<art, end, tree, starts, chunks, tfile, fexists, interp,
                   log, exc, ncuts, call, out>>

\* one turn of the bittools.hunt_strings loop, and the return of ponder
HuntStringsStep ==
    /\ UNCHANGED <<ovvars, pvars, tvars>>
    /\ pc = "hunt_strings"
    /\ IF snap # <<>>
       THEN /\ snap' = Tail(snap)
            /\ IF chunks[Head(snap)].owner = NoOwner
               THEN /\ pc' = "dissect"
                    /\ who' = "String"
                    /\ invoked' = invoked \cup {"String"}
                    /\ held' = Head(snap)
               ELSE UNCHANGED <<pc, who, invoked, held>>
       ELSE /\ pc' = "render"
            /\ UNCHANGED <<snap, who, invoked, held>>
    /\ UNCHANGED <<art, end, tree, starts, chunks, tfile, fexists, interp,
                   log, exc, passes, ncuts, call, out>>

\* ------------------------------------------------------------------ render

\* the loop of render_chunks over the tree from entry i on: what it writes
\* until "assert offset == loffset" fails, and the final loffset
RECURSIVE RenderLoop(_, _, _, _)
RenderLoop(it, i, loffset, written) ==
    IF i > Len(it) THEN [ok |-> TRUE, loffset |-> loffset, out |-> written]
    ELSE IF it[i][1] # loffset
    THEN [ok |-> FALSE, loffset |-> loffset, out |-> written]
    ELSE RenderLoop(it, i + 1, loffset + ChunkLen(chunks[it[i][2]]),
                    Append(written,
                           <<it[i][1], it[i][2], chunks[it[i][2]].owner>>))

\* __init__ from render_chunks(self.tfile) to the end
RenderChunks ==
    /\ UNCHANGED <<ovvars, pvars, tvars>>
    /\ pc = "render"
    /\ LET r == RenderLoop(TreeIter(tree), 1, 0, <<>>)
       IN  /\ out' = r.out
           /\ IF r.ok /\ r.loffset = end
              THEN /\ tfile' = "closed"
                   /\ interp' = TRUE
                   /\ tree' = NoTree
                   /\ starts' = <<>>
                   /\ pc' = "done"
                   /\ exc' = ""
              ELSE /\ pc' = "raised"
                   /\ exc' = "AssertionError"
                   /\ UNCHANGED <<tfile, interp, tree, starts>>
    /\ UNCHANGED <<art, end, chunks, fexists, log, who, invoked, passes, snap,
                   held, ncuts, call>>

\* render_real, called back by the artifact when it writes its output
RenderReal ==
    /\ UNCHANGED <<ovvars, pvars, tvars>>
    /\ pc = "done"
    /\ fexists' = FALSE
    /\ pc' = "rendered"
    /\ UNCHANGED <<art, end, tree, starts, chunks, tfile, interp, log, exc,
                   who, invoked, passes, snap, held, ncuts, call, out>>

Next ==
    \/ Reject
    \/ HeaderDecodeFails
    \/ Seed
    \/ HeapHeadCut
    \/ PonderLinkPack
    \/ PonderSeg97
    \/ PonderPlain
    \/ \E w \in CutOffsets, l \in CutLengths : DissectorCut(w, l)
    \/ \E w \in CutOffsets : DissectorMkCut(w)
    \/ DissectorClaim
    \/ DissectorMisFit
    \/ DissectorReturn
    \/ HuntArrayStep
    \/ HuntStringsStep
    \/ RenderChunks
    \/ RenderReal

Spec == Init /\ [][Next]_vars

\* ============================================================== OctetView
\* OctetView.render (autoarchaeologist/base/octetview.py): the lines of the
\* leaves and of the padding between them, with runs of identical lines
\* collapsed and the named marker points in between.

\* one leaf or padding item, and one separator, as iter_padded yields them
LeafItem(lo, hi) == [k |-> "leaf", lo |-> lo, hi |-> hi]
SepItem(name)    == [k |-> "sep", name |-> name]

\* "while self.separators and self.separators[0][0] <= lo:
\*      yield self.separators.pop(0)[1]"
RECURSIVE PopSeparators(_, _)
PopSeparators(seps, lo) ==
    IF seps # <<>> /\ seps[1][1] <= lo
    THEN LET r == PopSeparators(Tail(seps), lo)
         IN  [out |-> <<SepItem(seps[1][2])>> \o r.out, seps |-> r.seps]
    ELSE [out |-> <<>>, seps |-> seps]

\* pad_from_to without "i -= i % pad_width": every padding item is
\* pad_width bytes from where it starts
RECURSIVE pad_from_to_NoAlign(_, _, _, _)
pad_from_to_NoAlign(seps, lo, hi, pw) ==
    IF ~(hi > lo) THEN [out |-> <<>>, seps |-> seps]
    ELSE LET p  == PopSeparators(seps, lo)
             i0 == lo + pw
             i2 == Min(i0, hi)
             i3 == IF p.seps # <<>> THEN Min(i2, p.seps[1][1]) ELSE i2
             r  == pad_from_to_NoAlign(p.seps, i3, hi, pw)
         IN  [out |-> (p.out \o <<LeafItem(lo, i3)>>) \o r.out,
              seps |-> r.seps]

\* OctetView.pad_from_to: what it yields and the separators it leaves
RECURSIVE pad_from_to(_, _, _, _)
pad_from_to(seps, lo, hi, pw) ==
    IF ~(hi > lo) THEN [out |-> <<>>, seps |-> seps]
    ELSE LET p  == PopSeparators(seps, lo)
             i0 == lo + pw
             i1 == i0 - (i0 % pw)
             i2 == Min(i1, hi)
             i3 == IF p.seps # <<>> THEN Min(i2, p.seps[1][1]) ELSE i2
             r  == pad_from_to(p.seps, i3, hi, pw)
         IN  [out |-> (p.out \o <<LeafItem(lo, i3)>>) \o r.out,
              seps |-> r.seps]

\* OctetView.iter_padded from leaf number n on, with ptr
RECURSIVE iter_padded(_, _, _, _, _, _)
iter_padded(lvs, n, ptr, seps, hi, pw) ==
    IF n > Len(lvs) THEN pad_from_to(seps, ptr, hi, pw)
    ELSE LET a == pad_from_to(seps, ptr, lvs[n].lo, pw)
             b == PopSeparators(a.seps, lvs[n].lo)
             r == iter_padded(lvs, n + 1, lvs[n].hi, b.seps, hi, pw)
         IN  [out |-> ((a.out \o b.out) \o <<LeafItem(lvs[n].lo, lvs[n].hi)>>)
                         \o r.out,
              seps |-> r.seps]

\* Octets.render: the hex dump of the bytes lo..hi-1, one line
OctetsRender(this, lo, hi) == SubSeq(this, lo + 1, hi)

\* what render yields: a line with its address prefix, the repeat marker,
\* a named marker point
LineOut(lo, hi, line) == [k |-> "line", lo |-> lo, hi |-> hi, line |-> line]
RepeatOut(n)          == [k |-> "repeat", n |-> n]
MarkOut(name)         == [k |-> "mark", name |-> name]

\* ------------------------------------------------------------------ inputs

\* Largest buffer rendered, in bytes
MaxBuf == 4

ByteVals == {0, 1}
PadWidths == {1, 2}
KeyNames == <<"a", "b">>

Buffers == UNION {[1..n -> ByteVals] : n \in 1..MaxBuf}

\* at most two leaves, in address order, not overlapping, inside [0, hi)
LeafLists(hi) ==
    {<<>>}
    \cup {<<[lo |-> a, hi |-> b]>> : a \in 0..hi, b \in 0..hi} 
    \cup {<<[lo |-> a, hi |-> b], [lo |-> c, hi |-> d]>> :
             a \in 0..hi, b \in 0..hi, c \in 0..hi, d \in 0..hi}

LeafListOK(l) ==
    /\ \A i \in 1..Len(l) : l[i].lo < l[i].hi
    /\ \A i \in 1..Len(l) - 1 : l[i].hi <= l[i + 1].lo

\* at most two records with a key, in address order, anywhere in [0, hi]
KeyLists(hi) ==
    {<<>>}
    \cup {<< <<p, KeyNames[1]>> >> : p \in 0..hi}
    \cup {<< <<p, KeyNames[1]>>, <<q, KeyNames[2]>> >> : p \in 0..hi, q \in 0..hi}

KeyListOK(l) == \A i \in 1..Len(l) - 1 : l[i][1] <= l[i + 1][1]

\* the heap analysis is not running
NoHeap ==
    /\ art = [len |-> 0, notes |-> {}, x |-> 0, y |-> 0, zero |-> 0, z |-> 0,
              linkpack |-> FALSE]
    /\ pc = "off"
    /\ end = None
    /\ tree = NoTree
    /\ starts = <<>>
    /\ chunks = <<>>
    /\ tfile = "none"
    /\ fexists = FALSE
    /\ interp = FALSE
    /\ log = <<>>
    /\ exc = ""
    /\ who = "nobody"
    /\ invoked = {}
    /\ passes = <<>>
    /\ snap = <<>>
    /\ held = None
    /\ ncuts = 0
    /\ call = NoCall
    /\ out = <<>>

RenderInit ==
    /\ NoHeap /\ NoStructs /\ NoDecodes /\ NoHunt /\ NoTrees
    /\ octets \in Buffers
    /\ leaves \in LeafLists(Len(octets)) /\ LeafListOK(leaves)
    /\ keys \in KeyLists(Len(octets)) /\ KeyListOK(keys)
    /\ pad_width \in PadWidths
    /\ rpc = "start"
    /\ separators = None
    /\ todo = <<>>
    /\ prev_line = NoLine
    /\ repeat_line = 0
    /\ pending = NoPending
    /\ lines = <<>>

\* render up to the first request to iter_padded: the separators are
\* listed and the locals set
RenderBegin ==
    /\ UNCHANGED <<svars, dvars, pvars, tvars>>
    /\ rpc = "start"
    /\ LET it == iter_padded(leaves, 1, 0, keys, Len(octets), pad_width)
       IN  /\ todo' = it.out
           /\ separators' = it.seps
    /\ rpc' = "loop"
    /\ prev_line' = NoLine
    /\ repeat_line' = 0
    /\ pending' = NoPending
    /\ UNCHANGED <<hvars, octets, leaves, keys, pad_width, lines>>

\* one turn of "for leaf in self.iter_padded(...)" with a separator
RenderSeparator ==
    /\ UNCHANGED <<svars, dvars, pvars, tvars>>
    /\ rpc = "loop"
    /\ todo # <<>>
    /\ Head(todo).k = "sep"
    /\ pending' = Head(todo).name
    /\ todo' = Tail(todo)
    /\ UNCHANGED <<hvars, octets, leaves, keys, pad_width, rpc, separators,
                   prev_line, repeat_line, lines>>

\* RenderLeaf with the line compared to nothing: every line is yielded
RenderLeaf_NoCollapse ==
    /\ UNCHANGED <<svars, dvars, pvars, tvars>>
    /\ rpc = "loop"
    /\ todo # <<>>
    /\ Head(todo).k = "leaf"
    /\ LET leaf == Head(todo)
           line == OctetsRender(octets, leaf.lo, leaf.hi)
       IN  /\ lines' = ((lines
                         \o (IF repeat_line > 0 THEN <<RepeatOut(repeat_line)>>
                             ELSE <<>>))
                         \o (IF pending # NoPending THEN <<MarkOut(pending)>>
                             ELSE <<>>))
                         \o <<LineOut(leaf.lo, leaf.hi, line)>>
           /\ pending' = NoPending
           /\ repeat_line' = 0
           /\ prev_line' = line
    /\ todo' = Tail(todo)
    /\ UNCHANGED <<hvars, octets, leaves, keys, pad_width, rpc, separators>>

\* one turn of the loop with a leaf or a padding item, which renders as
\* one line
RenderLeaf ==
    /\ UNCHANGED <<svars, dvars, pvars, tvars>>
    /\ rpc = "loop"
    /\ todo # <<>>
    /\ Head(todo).k = "leaf"
    /\ LET leaf == Head(todo)
           line == OctetsRender(octets, leaf.lo, leaf.hi)
       IN  IF line = prev_line
           THEN /\ repeat_line' = repeat_line + 1
                /\ pending' = NoPending
                /\ UNCHANGED <<prev_line, lines>>
           ELSE /\ lines' = ((lines
                              \o (IF repeat_line > 0
                                  THEN <<RepeatOut(repeat_line)>> ELSE <<>>))
                              \o (IF pending # NoPending
                                  THEN <<MarkOut(pending)>> ELSE <<>>))
                              \o <<LineOut(leaf.lo, leaf.hi, line)>>
                /\ pending' = NoPending
                /\ repeat_line' = 0
                /\ prev_line' = line
    /\ todo' = Tail(todo)
    /\ UNCHANGED <<hvars, octets, leaves, keys, pad_width, rpc, separators>>

\* after the loop: the repeat marker of the last run
RenderEnd ==
    /\ UNCHANGED <<svars, dvars, pvars, tvars>>
    /\ rpc = "loop"
    /\ todo = <<>>
    /\ lines' = IF repeat_line > 0 THEN Append(lines, RepeatOut(repeat_line))
                ELSE lines
    /\ rpc' = "done"
    /\ UNCHANGED <<hvars, octets, leaves, keys, pad_width, separators, todo,
                   prev_line, repeat_line, pending>>

RenderNext ==
    \/ RenderBegin
    \/ RenderSeparator
    \/ RenderLeaf
    \/ RenderEnd

RenderSpec == RenderInit /\ [][RenderNext]_vars

\* ================================================================== Struct
\* octetview.Struct built by its constructor and, with more=True, by
\* add_field and done.  A struct is [lo, hi, fields, hasargs, args, ov_name]:
\* args is the set of the keyword names kept for Octets.__init__, hasargs is
\* false once "del self.args" has run; ov_name tells whether Octets.__init__ has set
\* the attributes of a leaf.  A field is [name, lo, hi]; a name is the
\* sequence of its characters, a number formatted into it being one element.

\* what add_field is given: an integer width, or a class
IntWhat(n) == <<"int", n>>
ClassWhat(c) == <<c, 0>>

\* (name, y) of self.fields, y spanning [lo, hi)
Field(name, lo, hi) == [name |-> name, lo |-> lo, hi |-> hi]

\* hasattr(self, "args")
HasArgs(st) == st.hasargs

\* the width of what add_field is given: an integer is a HexOctets that
\* wide, a class has the width its __init__ passes on
WidthOf(what) ==
    IF what[1] = "int" THEN what[2]
    ELSE IF what[1] = "Octet" THEN 1
    ELSE IF what[1] = "Le16" THEN 2
    ELSE 4

\* the outcome of a call on a struct: the exception ("" for none), the
\* struct it leaves, what it returned
SResult(e, st, ret) == [exc |-> e, st |-> st, ret |-> ret]

\* Struct.add_field(name, what) (and addfield)
add_field(st, name, what) ==
    LET nm == IF name = NoName THEN <<"at", ToString(st.hi - st.lo)>> ELSE name
        y  == Field(nm, st.hi, st.hi + WidthOf(what))
    IN  IF ~HasArgs(st) THEN SResult("AssertionError", st, <<>>)
        ELSE IF ~(y.hi > y.lo) THEN SResult("AssertionError", st, <<>>)
        ELSE SResult("", [st EXCEPT !.hi = y.hi,
                                    !.fields = Append(st.fields, y)], <<y>>)

\* Struct.hide_the_rest(size)
hide_the_rest(st, size) ==
    IF ~HasArgs(st) THEN SResult("AssertionError", st, <<>>)
    ELSE IF ~(st.lo + size >= st.hi) THEN SResult("AssertionError", st, <<>>)
    ELSE IF st.lo + size # st.hi
    THEN add_field(st, <<"at", ToString(st.hi), "_">>,
                   IntWhat(st.lo + size - st.hi))
    ELSE SResult("", st, <<>>)

\* the keyword arguments Octets.__init__ accepts next to hi
OctetsKw == {"width", "name"}

\* done with the residual bytes left out of the fields: the struct is made
\* to span pad bytes and no field is added
done_NoHiddenField(st, pad) ==
    LET h == IF pad # 0 /\ HasArgs(st) /\ st.lo + pad >= st.hi
             THEN SResult("", [st EXCEPT !.hi = st.lo + pad], <<>>)
             ELSE IF pad # 0 THEN SResult("AssertionError", st, <<>>)
             ELSE SResult("", st, <<>>)
    IN  IF h.exc # "" THEN h
        ELSE IF ~HasArgs(h.st) THEN SResult("AttributeError", h.st, <<>>)
        ELSE IF ~(h.st.args \subseteq OctetsKw)
        THEN SResult("TypeError", h.st, <<>>)
        ELSE IF ~(h.st.hi > h.st.lo) THEN SResult("AssertionError", h.st, <<>>)
        ELSE SResult("", [h.st EXCEPT !.hasargs = FALSE, !.args = {},
                                      !.ov_name = TRUE], <<>>)

\* Struct.done(pad)
done(st, pad) ==
    LET h == IF pad # 0 THEN hide_the_rest(st, pad) ELSE SResult("", st, <<>>)
    IN  IF h.exc # "" THEN h
        ELSE IF ~HasArgs(h.st) THEN SResult("AttributeError", h.st, <<>>)
        ELSE IF ~(h.st.args \subseteq OctetsKw)
        THEN SResult("TypeError", h.st, <<>>)
        ELSE IF ~(h.st.hi > h.st.lo) THEN SResult("AssertionError", h.st, <<>>)
        ELSE SResult("", [h.st EXCEPT !.hasargs = FALSE, !.args = {},
                                      !.ov_name = TRUE], <<>>)

\* the "for name, width in kwargs.items()" loop of Struct.__init__ over
\* the field arguments from number i on
RECURSIVE AddFields(_, _, _)
AddFields(st, kw, i) ==
    IF i > Len(kw) THEN SResult("", st, <<>>)
    ELSE LET r == add_field(st, kw[i][1], kw[i][2])
         IN  IF r.exc # "" THEN r ELSE AddFields(r.st, kw, i + 1)

\* Struct.__init__(tree, lo, vertical=vertical, more=more, pad=pad,
\* **kwargs): kw are the arguments whose names end in "_" (names given
\* without it), other the names of the rest
StructNew(lo, vertical, more, pad, kw, other) ==
    LET st0 == [lo |-> lo, hi |-> lo, fields |-> <<>>, hasargs |-> TRUE,
                args |-> other, ov_name |-> FALSE, vertical |-> vertical,
                cls |-> "Struct"]
        r   == AddFields(st0, kw, 1)
    IN  IF r.exc # "" \/ more THEN r ELSE done(r.st, pad)

\* name[-1] != "_"
Shown(name) == name[Len(name)] # "_"

\* Struct.render with the assertion left out
StructRender_NoAssert(st) ==
    SResult("", st, SelectSeq([i \in 1..Len(st.fields) |-> st.fields[i].name],
                              Shown))

\* Struct.render: the names of the fields it shows
StructRender(st) ==
    IF HasArgs(st) THEN SResult("AssertionError", st, <<>>)
    ELSE SResult("", st,
                 SelectSeq([i \in 1..Len(st.fields) |-> st.fields[i].name],
                           Shown))

\* one line of what render yields: the line of a struct in one line, with
\* the names of the fields shown; the opening line, the line of one field
\* with its offset and the closing line of a vertical struct; the line of
\* an array, with all its elements
Line(k, names, at) == [k |-> k, names |-> names, at |-> at]

\* the "for name, obj in self.fields" loop of the vertical branch of render
\* from field number i on
RECURSIVE VerticalLines(_, _)
VerticalLines(st, i) ==
    IF i > Len(st.fields) THEN <<>>
    ELSE (IF Shown(st.fields[i].name)
          THEN <<Line("field", <<st.fields[i].name>>, st.fields[i].lo - st.lo)>>
          ELSE <<>>)
         \o VerticalLines(st, i + 1)

\* render handing the fields over instead of reading them: they are gone
\* from the struct afterwards
RenderLines_Consuming(st) ==
    LET r == StructRender(st)
    IN  IF st.cls = "Array"
        THEN SResult("", [st EXCEPT !.fields = <<>>],
                     <<Line("array", [i \in 1..Len(st.fields) |->
                                         st.fields[i].name], 0)>>)
        ELSE IF r.exc # "" THEN r
        ELSE IF ~st.vertical
        THEN SResult("", [st EXCEPT !.fields = <<>>], <<Line("flat", r.ret, 0)>>)
        ELSE SResult("", [st EXCEPT !.fields = <<>>],
                     (<<Line("open", <<>>, 0)>> \o VerticalLines(st, 1))
                        \o <<Line("close", <<>>, 0)>>)

\* list(leaf.render()) for a Struct and for an Array: the lines yielded
RenderLines(st) ==
    LET r == StructRender(st)
    IN  IF st.cls = "Array"
        THEN SResult("", st,
                     <<Line("array", [i \in 1..Len(st.fields) |->
                                         st.fields[i].name], 0)>>)
        ELSE IF r.exc # "" THEN r
        ELSE IF ~st.vertical
        THEN SResult("", st, <<Line("flat", r.ret, 0)>>)
        ELSE SResult("", st,
                     (<<Line("open", <<>>, 0)>> \o VerticalLines(st, 1))
                        \o <<Line("close", <<>>, 0)>>)

\* Array_Class.__init__, the "for i in range(self.COUNT)" loop from i on
RECURSIVE ArrayFields(_, _, _, _)
ArrayFields(st, i, count, what) ==
    IF i >= count THEN SResult("", st, <<>>)
    ELSE LET r == add_field(st, <<"f", ToString(i)>>, what)
         IN  IF r.exc # "" THEN r ELSE ArrayFields(r.st, i + 1, count, what)

\* Array(count, what)(tree, lo)
ArrayNew(lo, count, what) ==
    LET s == StructNew(lo, FALSE, TRUE, 0, <<>>, {})
        r == ArrayFields([s.st EXCEPT !.cls = "Array"], 0, count, what)
    IN  IF r.exc # "" THEN r ELSE done(r.st, 0)

\* the instance attributes of a struct
AttrsOf(st) ==
    {<<"fields">>, <<"vertical">>, <<"lo">>, <<"hi">>, <<"tree">>}
    \cup (IF st.cls = "Array" THEN {<<"_elem">>} ELSE {})
    \cup (IF HasArgs(st) THEN {<<"args">>} ELSE {})
    \cup (IF st.ov_name THEN {<<"this">>, <<"ov_name">>} ELSE {})
    \cup {st.fields[i].name : i \in 1..Len(st.fields)}

\* reading self.<what>: __getattr__ raises for what is no attribute
GetAttr(st, what) ==
    IF what \in AttrsOf(st) THEN SResult("", st, <<what>>)
    ELSE SResult("AttributeError", st, <<>>)

\* ------------------------------------------------------------------ inputs

\* Largest number of calls made on one struct
MaxCalls == 3

StructLos   == {0, 16}
FieldNames  == {NoName, <<"a">>, <<"c", "_">>}
FieldWhats  == {IntWhat(0), IntWhat(2), ClassWhat("Octet"), ClassWhat("Le32")}
PadVals     == {0, 4, 6}
KwFields    == {<<>>, << << <<"a">>, ClassWhat("Le32") >> >>,
                << << <<"b">>, IntWhat(2) >>,
                   << <<"c", "_">>, ClassWhat("Octet") >> >>}
OtherArgs   == {{}, {"name"}, {"size"}}
ArrayCounts == {0, 1, 2}
\* the names read as attributes: field names and what Octets.__init__ sets
AttrProbes  == {<<"a">>, <<"b">>, <<"c", "_">>, <<"at", "0">>,
                <<"ov_name">>, <<"this">>, <<"args">>, <<"lo">>}


StructInit ==
    /\ NoHeap /\ NoView /\ NoDecodes /\ NoHunt /\ NoTrees
    /\ struct = NoStruct
    /\ spc = "new"
    /\ scall = NoSCall
    /\ ncalls = 0
    /\ finalized = FALSE

\* leaf = Array(count, what)(tree, lo)
ArrayCreate(lo, count, what) ==
    /\ spc = "new"
    /\ LET r == ArrayNew(lo, count, what)
       IN  /\ struct' = IF r.exc = "" THEN r.st ELSE NoStruct
           /\ spc' = IF r.exc = "" THEN "built" ELSE "failed"
           /\ finalized' = (r.exc = "")
           /\ scall' = [op |-> "array", pad |-> 0,
                        what |-> <<lo, count, what>>, exc |-> r.exc,
                        ret |-> <<>>]
    /\ UNCHANGED <<hvars, rvars, dvars, pvars, tvars, ncalls>>

\* leaf = Struct(tree, lo, vertical=vertical, more=more, pad=pad, **kwargs)
StructCreate(lo, vertical, more, pad, kw, other) ==
    /\ spc = "new"
    /\ LET r == StructNew(lo, vertical, more, pad, kw, other)
       IN  /\ struct' = IF r.exc = "" THEN r.st ELSE NoStruct
           /\ spc' = IF r.exc = "" THEN "built" ELSE "failed"
           /\ finalized' = (r.exc = "" /\ ~more)
           /\ scall' = [op |-> "init", pad |-> pad,
                        what |-> <<lo, more, kw, other, vertical>>,
                        exc |-> r.exc,
                        ret |-> <<>>]
    /\ UNCHANGED <<hvars, rvars, dvars, pvars, tvars, ncalls>>

\* leaf.add_field(name, what)
StructAddField(name, what) ==
    /\ spc = "built"
    /\ ncalls < MaxCalls
    /\ LET r == add_field(struct, name, what)
       IN  /\ struct' = r.st
           /\ scall' = [op |-> "add_field", pad |-> 0, what |-> <<name, what>>,
                        exc |-> r.exc, ret |-> r.ret]
    /\ ncalls' = ncalls + 1
    /\ UNCHANGED <<hvars, rvars, dvars, pvars, tvars, spc, finalized>>

\* leaf.done(pad)
StructDone(pad) ==
    /\ spc = "built"
    /\ ncalls < MaxCalls
    /\ LET r == done(struct, pad)
       IN  /\ struct' = r.st
           /\ finalized' = (finalized \/ r.exc = "")
           /\ scall' = [op |-> "done", pad |-> pad, what |-> NoName,
                        exc |-> r.exc, ret |-> r.ret]
    /\ ncalls' = ncalls + 1
    /\ UNCHANGED <<hvars, rvars, dvars, pvars, tvars, spc>>

\* list(leaf.render())
StructRenders ==
    /\ spc = "built"
    /\ ncalls < MaxCalls
    /\ LET r == RenderLines(struct)
       IN  /\ struct' = r.st
           /\ scall' = [op |-> "render", pad |-> 0, what |-> NoName,
                        exc |-> r.exc, ret |-> r.ret]
    /\ ncalls' = ncalls + 1
    /\ UNCHANGED <<hvars, rvars, dvars, pvars, tvars, spc, finalized>>

\* leaf.<what>
StructGetAttr(what) ==
    /\ spc = "built"
    /\ ncalls < MaxCalls
    /\ LET r == GetAttr(struct, what)
       IN  /\ struct' = r.st
           /\ scall' = [op |-> "getattr", pad |-> 0, what |-> what,
                        exc |-> r.exc, ret |-> r.ret]
    /\ ncalls' = ncalls + 1
    /\ UNCHANGED <<hvars, rvars, dvars, pvars, tvars, spc, finalized>>

StructNext ==
    \/ \E lo \in StructLos, vertical \in BOOLEAN, more \in BOOLEAN,
          pad \in PadVals, kw \in KwFields, other \in OtherArgs :
             StructCreate(lo, vertical, more, pad, kw, other)
    \/ \E lo \in StructLos, count \in ArrayCounts, what \in FieldWhats :
             ArrayCreate(lo, count, what)
    \/ \E name \in FieldNames, what \in FieldWhats : StructAddField(name, what)
    \/ \E pad \in PadVals : StructDone(pad)
    \/ StructRenders
    \/ \E what \in AttrProbes : StructGetAttr(what)

StructSpec == StructInit /\ [][StructNext]_vars

\* ---------------------------------------------------------------- decoders
\* The four-byte decoders of octetview. self.val is a Python int, which has
\* no width: it is modelled as the sequence of its bits, lowest first,
\* without leading zeros, so that "<<" and "|=" are computed bit by bit.

\* Largest number of bytes of the buffer decoded from
MaxMem == 5

\* the bits of the natural number n
RECURSIVE IntBits(_)
IntBits(n) == IF n = 0 THEN <<>> ELSE <<n % 2>> \o IntBits(n \div 2)

\* value << n
Shl(value, n) == IF value = <<>> THEN <<>> ELSE [i \in 1..n |-> 0] \o value

\* a | b
BitOr(a, b) ==
    [i \in 1..Max(Len(a), Len(b)) |->
        IF (i <= Len(a) /\ a[i] = 1) \/ (i <= Len(b) /\ b[i] = 1) THEN 1 ELSE 0]

\* self.this[idx]
ThisAt(this, idx) == IntBits(this[idx + 1])

\* Le32.__init__
Le32(this, lo) ==
    LET v1 == Shl(ThisAt(this, lo + 3), 24)
        v2 == BitOr(v1, Shl(ThisAt(this, lo + 2), 16))
        v3 == BitOr(v2, Shl(ThisAt(this, lo + 1), 8))
    IN  BitOr(v3, ThisAt(this, lo))

\* Be32.__init__
Be32(this, lo) ==
    LET v1 == Shl(ThisAt(this, lo + 0), 24)
        v2 == BitOr(v1, Shl(ThisAt(this, lo + 1), 16))
        v3 == BitOr(v2, Shl(ThisAt(this, lo + 2), 8))
    IN  BitOr(v3, ThisAt(this, lo + 3))

\* L2301.__init__
L2301(this, lo) ==
    LET v1 == Shl(ThisAt(this, lo + 2), 24)
        v2 == BitOr(v1, Shl(ThisAt(this, lo + 3), 16))
        v3 == BitOr(v2, Shl(ThisAt(this, lo + 0), 8))
    IN  BitOr(v3, ThisAt(this, lo + 1))

\* L1032 decoded in the order of L2301
L1032_As2301(this, lo) == L2301(this, lo)

\* L1032.__init__
L1032(this, lo) ==
    LET v1 == Shl(ThisAt(this, lo + 1), 24)
        v2 == BitOr(v1, Shl(ThisAt(this, lo + 0), 16))
        v3 == BitOr(v2, Shl(ThisAt(this, lo + 3), 8))
    IN  BitOr(v3, ThisAt(this, lo + 2))

\* byte values: zero, the spec's example bytes, the largest byte
DecodeBytes == {0, 1, 2, 3, 4, 255}

\* the buffers decoded from
Mems == UNION {[1..n -> DecodeBytes] : n \in 4..MaxMem}

\* the offsets at which a buffer holds four bytes
FieldLos(this) == 0..(Len(this) - 4)

\* a field object is constructed once: each behaviour is one decoding
DecodeInit ==
    /\ NoHeap /\ NoView /\ NoStructs /\ NoHunt /\ NoTrees
    /\ mem \in Mems
    /\ dlo = 0
    /\ dcls = "none"
    /\ dval = <<>>

\* Be32(tree, lo)
DecodeBe32(lo) ==
    /\ dcls = "none"
    /\ dlo' = lo
    /\ dcls' = "Be32"
    /\ dval' = Be32(mem, lo)
    /\ UNCHANGED <<hvars, rvars, svars, pvars, tvars, mem>>

\* Le32(tree, lo)
DecodeLe32(lo) ==
    /\ dcls = "none"
    /\ dlo' = lo
    /\ dcls' = "Le32"
    /\ dval' = Le32(mem, lo)
    /\ UNCHANGED <<hvars, rvars, svars, pvars, tvars, mem>>

\* L2301(tree, lo)
DecodeL2301(lo) ==
    /\ dcls = "none"
    /\ dlo' = lo
    /\ dcls' = "L2301"
    /\ dval' = L2301(mem, lo)
    /\ UNCHANGED <<hvars, rvars, svars, pvars, tvars, mem>>

\* L1032(tree, lo)
DecodeL1032(lo) ==
    /\ dcls = "none"
    /\ dlo' = lo
    /\ dcls' = "L1032"
    /\ dval' = L1032(mem, lo)
    /\ UNCHANGED <<hvars, rvars, svars, pvars, tvars, mem>>

DecodeNext ==
    \/ \E lo \in FieldLos(mem) : DecodeBe32(lo)
    \/ \E lo \in FieldLos(mem) : DecodeLe32(lo)
    \/ \E lo \in FieldLos(mem) : DecodeL2301(lo)
    \/ \E lo \in FieldLos(mem) : DecodeL1032(lo)

DecodeSpec == DecodeInit /\ [][DecodeNext]_vars

\* ---------------------------------------------------------- pointer hunting
\* hunt and hunt_orphans read the bits of the chunks.  A chunk's bits are
\* the range [lo, hi) of the artifact's bitstream (BitsPrefix, BitsSuffix),
\* and the bitstream s is the set of the positions that hold a 1.

MinStart == 4096          \* 0x1000: chunks that begin below are not hunted
PatternBits == 32         \* bin((1<<32) + value)[3:] has 32 digits

\* Largest number of cuts made on the heap before pointers are hunted
MaxParts == 2

\* bin(n)[2:], highest digit first
RECURSIVE Bin(_)
Bin(n) == IF n < 2 THEN <<n>> ELSE Bin(n \div 2) \o <<n % 2>>

\* bin((1<<32) + value)[3:]
Pattern(value) == [i \in 1..(PatternBits - Len(Bin(value))) |-> 0] \o Bin(value)

BitAt(s, p) == IF p \in s THEN 1 ELSE 0

\* pattern is found at position p of the bitstream
OccursAt(s, p, pattern) ==
    \A i \in 1..Len(pattern) : BitAt(s, p + i - 1) = pattern[i]

\* the positions at which a pattern can be found: where it has its first 1
\* the bitstream has a 1 (a pattern without a 1 can be found anywhere)
Candidates(s, lo, hi, pattern) ==
    IF \E i \in 1..Len(pattern) : pattern[i] = 1
    THEN LET first == CHOOSE i \in 1..Len(pattern) :
                          /\ pattern[i] = 1
                          /\ \A k \in 1..(i - 1) : pattern[k] = 0
         IN  {q - (first - 1) : q \in s} \cap (lo..hi)
    ELSE lo..hi

\* b.find(pattern) for the bits b: the lowest index at which pattern is
\* found within b, -1 when there is none
Find(s, b, pattern) ==
    LET found == {p \in Candidates(s, b.lo, b.hi - Len(pattern), pattern) :
                     OccursAt(s, p, pattern)}
    IN  IF found = {} THEN -1
        ELSE (CHOOSE p \in found : \A q \in found : p <= q) - b.lo

\* hunt, the "while True" loop on one chunk from offset on
RECURSIVE HuntChunk(_, _, _, _, _)
HuntChunk(H, s, c, offset, pattern) ==
    LET j == Find(s, BitsSuffix(H.chunks[c].bits, offset), pattern)
    IN  IF j < 0 THEN <<>>
        ELSE << [chunk |-> c, offset |-> offset + j,
                 address |-> H.chunks[c].begin + offset + j] >>
             \o HuntChunk(H, s, c, offset + j + 1, pattern)

\* hunt, the "for _i, chunk in self.tree" loop from the i-th chunk on
RECURSIVE HuntFrom(_, _, _, _, _)
HuntFrom(H, s, it, i, pattern) ==
    IF i > Len(it) THEN <<>>
    ELSE HuntChunk(H, s, it[i], 0, pattern) \o HuntFrom(H, s, it, i + 1, pattern)

\* R1kSegHeap.hunt(pattern)
hunt(H, s, pattern) == HuntFrom(H, s, ChunkList(H.tree), 1, pattern)

\* the report of one pointer: the print and the bittools.BitPointer made
\* at address, for the chunk begin it points to
Orphan(begin, cut, ident) ==
    [target |-> begin, offset |-> cut.offset, address |-> cut.address,
     ident |-> ident]

\* hunt_orphans, the body of its loop for the chunk c
OrphansOf(H, s, c) ==
    LET ch    == H.chunks[c]
        cuts  == hunt(H, s, Pattern(ch.begin))
        Free(cut) == H.chunks[cut.chunk].owner = NoOwner
        kept  == SelectSeq(cuts, Free)
        ident == IF ch.owner # NoOwner THEN <<"orphan", ch.owner>>
                 ELSE <<"orphan">>
    IN  IF ch.begin < MinStart THEN <<>>
        ELSE [i \in 1..Len(kept) |-> Orphan(ch.begin, kept[i], ident)]

\* hunt_orphans, its loop from the i-th chunk on
RECURSIVE OrphansFrom(_, _, _, _)
OrphansFrom(H, s, it, i) ==
    IF i > Len(it) THEN <<>>
    ELSE OrphansOf(H, s, it[i]) \o OrphansFrom(H, s, it, i + 1)

\* R1kSegHeap.hunt_orphans()
hunt_orphans(H, s) == OrphansFrom(H, s, ChunkList(H.tree), 1)

\* ------------------------------------------------------------------ inputs

\* heaps that reach beyond MinStart: end is 0x10c0 or 0x1100
HuntXVals == {4161, 4225}

HuntArtifacts ==
    [len : {1024}, notes : {{"R1k_Segment"}}, x : HuntXVals, y : {4095},
     zero : {0}, z : {8191}, linkpack : {FALSE}]

\* the ones of a 32 bit value written at position p
OnesAt(value, p) ==
    {p + i - 1 : i \in {k \in 1..PatternBits : Pattern(value)[k] = 1}}

\* the ones of the header, which __init__ has read from bits 0..127
HeaderOnes(a) ==
    OnesAt(a.x, 0) \cup OnesAt(a.y, HeaderWord) \cup OnesAt(a.zero, 2 * HeaderWord)
    \cup OnesAt(a.z, 3 * HeaderWord)

\* the chunk begins written into the heap as pointers, and where: behind
\* the head, across 0x1000, behind 0x1040
PointerVals == {4096, 4112}
PointerAts  == {144, 4080, 4160}

Streams(a) ==
    {HeaderOnes(a)}
    \cup {HeaderOnes(a) \cup OnesAt(v, p) : v \in PointerVals, p \in PointerAts}
    \cup {HeaderOnes(a) \cup OnesAt(v, 144) \cup OnesAt(v, 4080) : v \in PointerVals}

\* the cuts made before the hunt
PartOffsets == {128, 4096, 4112}
PartLengths == {-1, 64}

\* the heap as __init__ hands it to ponder, with the bits of the artifact
HuntInit ==
    /\ NoView /\ NoStructs /\ NoDecodes /\ NoTrees
    /\ art \in HuntArtifacts
    /\ LET e     == art.x + EndPad
           chunk == R1kSegChunk(0, BitsPrefix([lo |-> 0, hi |-> 8 * art.len], e))
           H0    == [tree |-> TreeInsert(TreeNode(RootShift(art.z)), 0, 1).node,
                     starts |-> StartsSet(<<>>, 0, 1),
                     chunks |-> <<chunk>>]
           r     == Cut(H0, e, 0, HeadBits)
       IN  /\ end = e
           /\ tree = r.tree
           /\ starts = r.starts
           /\ chunks = [r.chunks EXCEPT ![r.ret].owner = "HeapHead"]
           /\ call = [where |-> 0, length |-> HeadBits, exc |-> r.exc,
                      ret |-> r.ret]
    /\ pc = "ponder"
    /\ tfile = "open"
    /\ fexists = TRUE
    /\ interp = FALSE
    /\ log = <<"?R1SH">>
    /\ exc = ""
    /\ who = "nobody"
    /\ invoked = {}
    /\ passes = <<>>
    /\ snap = <<>>
    /\ held = None
    /\ ncuts = 1
    /\ out = <<>>
    /\ stream \in Streams(art)
    /\ orphans = <<>>
    /\ nparts = 0
    /\ hpc = "ponder"

\* a dissector cuts the heap, and claims the chunk it got or leaves it
PartCut(where, length, claim) ==
    /\ hpc = "ponder"
    /\ nparts < MaxParts
    /\ \E r \in {Cut(Heap, end, where, length)} :
           /\ tree' = r.tree
           /\ starts' = r.starts
           /\ chunks' = IF r.exc = "" /\ claim
                             /\ r.chunks[r.ret].owner = NoOwner
                        THEN [r.chunks EXCEPT ![r.ret].owner = "Seg97"]
                        ELSE r.chunks
           /\ call' = [where |-> where, length |-> length, exc |-> r.exc,
                       ret |-> r.ret]
    /\ ncuts' = ncuts + 1
    /\ nparts' = nparts + 1
    /\ UNCHANGED <<art, pc, end, tfile, fexists, interp, log, exc, who,
                   invoked, passes, snap, held, out>>
    /\ UNCHANGED <<ovvars, tvars, stream, orphans, hpc>>

\* self.hunt_orphans()
HuntOrphans ==
    /\ hpc = "ponder"
    /\ orphans' = hunt_orphans(Heap, stream)
    /\ hpc' = "hunted"
    /\ UNCHANGED <<hvars, ovvars, tvars, stream, nparts>>

HuntNext ==
    \/ \E where \in PartOffsets, length \in PartLengths, claim \in BOOLEAN :
          PartCut(where, length, claim)
    \/ HuntOrphans

HuntSpec == HuntInit /\ [][HuntNext]_vars

\* ================================================================ TreeNode
\* A TreeNode tree by itself: entries are inserted and deleted as cut does,
\* one offset at most once, until an insert raises.

\* Largest number of insert and delete calls made on one tree
MaxOps == 2

\* the root shifts __init__ gives a tree, the offsets and the chunks
TreeShifts   == {8, 12}
TreeOffsets  == {0, 1, 128, 129, 144, 4096}
TreePayloads == {1, 2}

\* the tree after the inserts of es, a sequence of (offset, chunk)
RECURSIVE TreeOf(_, _)
TreeOf(shift, es) ==
    IF es = <<>> THEN TreeNode(shift)
    ELSE TreeInsert(TreeOf(shift, SubSeq(es, 1, Len(es) - 1)),
                    es[Len(es)][1], es[Len(es)][2]).node

\* the entries of the trees to start from: the seed chunk, the heap head
\* cut off it, one more cut
SeedEntries == {<<>>, << <<0, 1>> >>, << <<0, 2>>, <<128, 1>> >>,
                << <<0, 2>>, <<128, 1>>, <<129, 3>> >>}

TreeInit ==
    /\ NoHeap /\ NoView /\ NoStructs /\ NoDecodes /\ NoHunt
    /\ ttree \in {TreeOf(s, es) : s \in TreeShifts, es \in SeedEntries}
    /\ tcall = NoTCall
    /\ nops = 0
    /\ tpc = "run"

\* tree.insert(value, payload)
TreeInserts(value, payload) ==
    /\ tpc = "run"
    /\ nops < MaxOps
    /\ \A i \in 1..Len(TreeIter(ttree)) : TreeIter(ttree)[i][1] # value
    /\ LET r == TreeInsert(ttree, value, payload)
       IN  /\ ttree' = r.node
           /\ tpc' = IF r.err THEN "raised" ELSE "run"
           /\ tcall' = [op |-> "insert", value |-> value, payload |-> payload,
                        exc |-> IF r.err THEN "ValueError" ELSE ""]
    /\ nops' = nops + 1
    /\ UNCHANGED <<hvars, ovvars, pvars>>

\* tree.delete(value, payload)
TreeDeletes(value, payload) ==
    /\ tpc = "run"
    /\ nops < MaxOps
    /\ LET r == TreeDelete(ttree, value, payload)
       IN  /\ ttree' = r.node
           /\ tcall' = [op |-> "delete", value |-> value, payload |-> payload,
                        exc |-> IF r.err THEN "AssertionError" ELSE ""]
    /\ nops' = nops + 1
    /\ UNCHANGED <<hvars, ovvars, pvars, tpc>>

TreeNext ==
    \/ \E value \in TreeOffsets, payload \in TreePayloads :
          TreeInserts(value, payload)
    \/ \E value \in TreeOffsets, payload \in TreePayloads :
          TreeDeletes(value, payload)

TreeSpec == TreeInit /\ [][TreeNext]_vars

\* ================================================================== claims

\* the analysis holds a heap and no exception has ended it
InHeap == pc \in {"seeded", "ponder", "dissect", "hunt_array",
                  "hunt_strings", "render"}

\* the chunk set: the chunks that are leaves of the tree t
TreeChunksOf(t) == LET it == TreeIter(t) IN {it[i][2] : i \in 1..Len(it)}
TreeOffsetsOf(t) == LET it == TreeIter(t) IN {it[i][1] : i \in 1..Len(it)}

Begin(cs, c) == cs[c].begin
Limit(cs, c) == cs[c].begin + ChunkLen(cs[c])

RECURSIVE SumOfLens(_, _)
SumOfLens(cs, S) ==
    IF S = {} THEN 0
    ELSE LET c == CHOOSE d \in S : TRUE
         IN  ChunkLen(cs[c]) + SumOfLens(cs, S \ {c})

\* the chunks S of cs partition the bit range [lo, hi)
Partitions(cs, S, lo, hi) ==
    /\ \A c \in S : ChunkLen(cs[c]) > 0
    /\ \A c \in S : lo <= Begin(cs, c) /\ Limit(cs, c) <= hi
    /\ \A c, d \in S :
          c # d => (Limit(cs, c) <= Begin(cs, d) \/ Limit(cs, d) <= Begin(cs, c))
    /\ SumOfLens(cs, S) = hi - lo

Logged(m) == \E i \in 1..Len(log) : log[i] = m

\* this step is a call of cut; call' holds its arguments and outcome
IsCutStep == ncuts' = ncuts + 1

\* the call meets the entry assertion of cut and names a length cut is
\* written for (-1 for "the rest", or a positive number of bits)
ProperCall(w, l) == (w # 0 \/ l = HeadBits) /\ (l = -1 \/ l >= 1)

\* the chunks of the chunk set that cover bit w
Covering(w) ==
    {c \in TreeChunksOf(tree) : Begin(chunks, c) <= w /\ w < Limit(chunks, c)}

\* the range asked of cut(w, l) meets the range of chunk ch
Intersects(w, l, ch) ==
    \/ ch.begin <= w /\ w < ch.begin + ChunkLen(ch)
    \/ w < ch.begin /\ w + l > ch.begin

\* C1: in the seed state and after any sequence of cut calls that return or
\* raise MisFit, the chunk set partitions [0, end), end = first_free_bit +
\* 0x7f: every chunk is non-empty, the chunks are pairwise disjoint and
\* their union is [0, end).
C1_ChunksTileExtent ==
    InHeap => /\ end = art.x + EndPad
              /\ Partitions(chunks, TreeChunksOf(tree), 0, end)

\* C2: once a chunk has an owner, every later cut(offset, length) whose
\* range meets the chunk's range raises MisFit and the chunk keeps its
\* owner (stated for the calls that pass cut's entry assertion).
C2_OwnedRangeMisFits ==
    [][ (IsCutStep /\ ProperCall(call'.where, call'.length)) =>
          \A c \in TreeChunksOf(tree) :
             (chunks[c].owner # NoOwner
                /\ Intersects(call'.where, call'.length, chunks[c]))
             => (call'.exc = "MisFit" /\ chunks'[c].owner = chunks[c].owner)
      ]_vars

\* C3: for an unowned chunk [a, b) and offset, length with a <= offset and
\* offset + length <= b, cut returns a chunk of range exactly
\* [offset, offset + length); afterwards [a, b) is covered by it plus a
\* prefix [a, offset) and/or a remainder [offset + length, b), and all other
\* chunks are unchanged.
C3_SplitCorrect ==
    [][ (IsCutStep /\ ProperCall(call'.where, call'.length)) =>
          \A c \in TreeChunksOf(tree) :
             LET w == call'.where
                 l == call'.length
                 a == Begin(chunks, c)
                 b == Limit(chunks, c)
                 post == TreeChunksOf(tree')
                 inside == {d \in post : a <= Begin(chunks', d)
                                          /\ Limit(chunks', d) <= b}
             IN  (chunks[c].owner = NoOwner /\ l >= 1 /\ a <= w /\ w + l <= b)
                 => /\ call'.exc = ""
                    /\ call'.ret \in inside
                    /\ Begin(chunks', call'.ret) = w
                    /\ Limit(chunks', call'.ret) = w + l
                    /\ Partitions(chunks', inside, a, b)
                    /\ \A d \in inside \ {call'.ret} :
                          \/ Begin(chunks', d) = a /\ Limit(chunks', d) = w
                          \/ Begin(chunks', d) = w + l /\ Limit(chunks', d) = b
                    /\ post \ inside = TreeChunksOf(tree) \ {c}
                    /\ \A d \in post \ inside : chunks'[d] = chunks[d]
      ]_vars

\* C4: cut(offset, length) fails with MisFit, and with no other error, when
\* offset >= end, when the chunk covering offset has an owner, and when
\* length exceeds the bits from offset to the end of the covering chunk; in
\* every other case it returns a chunk (stated for the calls that pass
\* cut's entry assertion with length -1 or positive).
C4_MisFitCases ==
    [][ (IsCutStep /\ ProperCall(call'.where, call'.length)) =>
          LET w == call'.where
              l == call'.length
              misfit ==
                 \/ w >= end
                 \/ \E c \in Covering(w) : chunks[c].owner # NoOwner
                 \/ \E c \in Covering(w) : l > Limit(chunks, c) - w
          IN  /\ call'.exc \in {"", "MisFit"}
              /\ misfit <=> call'.exc = "MisFit"
              /\ ~misfit => call'.ret \in TreeChunksOf(tree')
      ]_vars

\* offsets looked up in the tree (cut looks up offsets below end only)
FindProbes == {0, 1, 127, 128, 143, 144, 160, 4095, 4096, 4112, 4221}

SetMax(S) == CHOOSE m \in S : \A o \in S : o <= m

\* C5: for a tree holding the start offsets s0 < ... < sn, find(x) returns
\* the entry with the greatest offset <= x, and (None, None) when x < s0
\* (stated for the trees of the analysis and the offsets x < end).
C5_FindIsFloor ==
    InHeap =>
      \A x \in {y \in FindProbes : y < end} :
         LET below == {o \in TreeOffsetsOf(tree) : o <= x}
             r == TreeFind(tree, x)
         IN  IF below = {} THEN r = NoneNone
             ELSE /\ r.off = SetMax(below)
                  /\ <<r.off, r.ch>> \in
                        {TreeIter(tree)[i] : i \in 1..Len(TreeIter(tree))}

\* C6: for every accepted header the analysis claims [0, 128) as the heap
\* head before pondering: cut(0, 0x80) returns a chunk with begin 0 and
\* length 128.
C6_HeadClaimed ==
    (ncuts = 1 /\ call.where = 0 /\ call.length = HeadBits) =>
       /\ call.exc = ""
       /\ call.ret # None
       /\ chunks[call.ret].begin = 0
       /\ ChunkLen(chunks[call.ret]) = HeadBits

\* C7: once the intermediate file has been opened, every way the analysis
\* can end (completion, MisFit from the heap-head cut, an exception from
\* pondering or rendering) leaves the file closed and removed.
C7_FileReleased ==
    (pc \in {"raised", "rendered"} /\ tfile # "none") =>
       (tfile = "closed" /\ ~fexists)

\* C8 as claimed: a MisFit of either primary dissector (link pack or '97
\* segment) is logged and re-raised: pondering stops, no heuristic pass
\* runs afterwards and the analysis is aborted.
C8_PrimaryMisFitAborts ==
    (Logged("FAIL LINKPACK") \/ Logged("FAIL SEG97")) =>
       /\ pc = "raised"
       /\ exc = "MisFit"
       /\ Logged("PONDERING FAILED")
       /\ passes = <<>>
       /\ invoked \cap {"ArrayString", "String"} = {}
       /\ ~interp

\* C8 as amended: a MisFit of the link-pack dissector is logged and
\* re-raised: pondering stops, no heuristic pass runs afterwards and the
\* analysis is aborted.
C8_LinkPackMisFitAborts ==
    Logged("FAIL LINKPACK") =>
       /\ pc = "raised"
       /\ exc = "MisFit"
       /\ Logged("PONDERING FAILED")
       /\ passes = <<>>
       /\ invoked \cap {"Seg97", "ArrayString", "String"} = {}
       /\ out = <<>>
       /\ ~interp

\* the link-pack dissector was invoked, failed with MisFit, and the
\* analysis ended there
C8_Witness ==
    /\ Logged("FAIL LINKPACK")
    /\ "LinkPack" \in invoked
    /\ pc = "raised"

\* C9: with the '97 note and no link-pack signature, a MisFit of the '97
\* dissector is logged and pondering goes on: the array-string pass runs,
\* the string-hunting pass runs too when the artifact is at most 100000
\* bytes, and the chunks are rendered; an exception that ends the analysis
\* later comes from a heuristic or from the render pass.
C9_Seg97MisFitContinues ==
    Logged("FAIL SEG97") =>
       /\ "97_tag" \in art.notes /\ ~HasLinkPack(art)
       /\ passes # <<>> /\ passes[1] = "hunt_array_strings"
       /\ pc \in {"hunt_array", "hunt_strings", "dissect", "render", "done",
                  "rendered", "raised"}
       /\ (pc = "dissect" => who \in {"ArrayString", "String"})
       /\ (pc \in {"render", "done", "rendered"} =>
             passes = IF art.len > HuntCeil
                      THEN <<"hunt_array_strings">>
                      ELSE <<"hunt_array_strings", "hunt_strings">>)
       /\ (pc \in {"done", "rendered"} =>
             /\ interp
             /\ {out[i][2] : i \in 1..Len(out)} =
                   {c \in 1..Len(chunks) : ChunkLen(chunks[c]) > 0})
       /\ (pc = "raised" =>
             \/ Logged("PONDERING FAILED")
                  /\ invoked \cap {"ArrayString", "String"} # {}
             \/ ~Logged("PONDERING FAILED") /\ exc = "AssertionError"
                  /\ passes # <<>>)

\* the '97 dissector failed with MisFit, both heuristic passes ran and the
\* chunks were rendered
C9_Witness ==
    /\ Logged("FAIL SEG97")
    /\ passes = <<"hunt_array_strings", "hunt_strings">>
    /\ "ArrayString" \in invoked
    /\ pc = "rendered"
    /\ Len(out) >= 2

\* C10: when the link-pack signature is present, pondering invokes the
\* link-pack dissector only: neither the '97 dissector nor a heuristic pass
\* is ever started for that artifact.
C10_LinkPackOnly ==
    HasLinkPack(art) =>
       /\ invoked \subseteq {"LinkPack"}
       /\ passes = <<>>
       /\ pc \notin {"hunt_array", "hunt_strings"}
       /\ (pc = "dissect" => who = "LinkPack")

\* an artifact with the signature and the '97 note, analysed to the end
\* by the link-pack dissector alone
C10_Witness ==
    /\ HasLinkPack(art)
    /\ "97_tag" \in art.notes
    /\ invoked = {"LinkPack"}
    /\ \E c \in 1..Len(chunks) : chunks[c].owner = "LinkPack"
    /\ pc = "rendered"

\* the header conditions of __init__ as the claim words them
HeaderPasses(a) ==
    /\ a.zero = 0
    /\ a.x <= a.z
    /\ a.y % (LowMask + 1) = LowMask
    /\ a.z % (LowMask + 1) = LowMask

\* C11: an artifact that passes the size and note checks proceeds to
\* seeding if and only if its header has the zero field 0, first_free_bit
\* <= alloced_bits and the low 12 bits of max_bits and of alloced_bits all
\* ones; with any other header it is rejected.
C11_HeaderValidation ==
    [][ (pc = "start" /\ ~Skips(art)) =>
          /\ HeaderPasses(art) <=> (end' = art.x + EndPad /\ Logged("?R1SH")')
          /\ ~HeaderPasses(art) => pc' = "rejected"
      ]_vars

\* C12: every rejection (size, missing R1k_Segment note, excluded note,
\* header failing validation) ends the analysis without an error and
\* without side effects: no tree, no start index, no chunk, no intermediate
\* file, nothing printed, no interpretation attached, the artifact as it was.
C12_RejectNoEffect ==
    /\ pc = "rejected" =>
          /\ exc = ""
          /\ tree = NoTree /\ starts = <<>> /\ chunks = <<>> /\ end = None
          /\ tfile = "none" /\ ~fexists
          /\ ~interp /\ log = <<>> /\ out = <<>>
          /\ invoked = {} /\ ncuts = 0
    /\ (pc = "start" /\ (Skips(art) \/ (~DecodeFails(art) /\ ~HeaderPasses(art))))
          => ENABLED Reject /\ ~ENABLED Seed /\ ~ENABLED HeaderDecodeFails

\* an artifact of the right size and notes rejected for its header
C12_Witness ==
    /\ pc = "rejected"
    /\ ~Skips(art)
    /\ ~HeaderPasses(art)

\* the slots (value >> shift) & 0xf of an offset at the levels from the
\* root shift down to 0
SlotPath(value, shift) == [l \in 0..(shift \div 4) |-> Slot(value, shift - 4 * l)]

\* C15: for every accepted header the root shift j chosen at seeding gives
\* the tree enough levels for the decoded extent: end = first_free_bit +
\* 0x7f <= 16^(j/4 + 1), so that distinct offsets of [0, end) take distinct
\* slots and no node is made with a shift below 0.
C15_RootShiftCovers ==
    InHeap =>
       /\ end <= Pow2(tree.shift + 4)
       /\ \A o1, o2 \in (TreeOffsetsOf(tree) \cup FindProbes) :
             (o1 < end /\ o2 < end /\ o1 # o2)
                => SlotPath(o1, tree.shift) # SlotPath(o2, tree.shift)
       /\ exc # "ValueError"

\* the calls of cut that can come next: the heap-head cut after seeding,
\* any call of a dissector or heuristic while pondering
CanCall(w, l) ==
    \/ pc = "seeded" /\ w = 0 /\ l = HeadBits
    \/ pc \in {"ponder", "dissect"}

\* C16: when an unowned chunk starts exactly at offset and length is -1 or
\* the chunk's length, cut(offset, length) returns that chunk and leaves
\* the tree, the start index and every chunk unchanged (so does mkcut);
\* consequently a successful cut repeated with the same arguments, with no
\* owner attached in between, returns the same chunk and changes nothing.
C16_CutIdempotent ==
    /\ \A c \in TreeChunksOf(tree) :
          \A l \in {-1, ChunkLen(chunks[c])} :
             (chunks[c].owner = NoOwner /\ CanCall(Begin(chunks, c), l))
                => /\ Cut(Heap, end, Begin(chunks, c), l) = Return(Heap, c)
                   /\ MkCut(Heap, end, Begin(chunks, c)).out = Return(Heap, c)
    /\ (/\ pc = "dissect"
        /\ call.exc = "" /\ call.ret # None
        /\ chunks[call.ret].owner = NoOwner)
          => Cut(Heap, end, call.where, call.length) = Return(Heap, call.ret)

\* a dissector's cut has split a chunk and returned the piece asked for,
\* which has no owner yet: the call can be repeated
C16_Witness ==
    /\ pc = "dissect"
    /\ ncuts >= 2
    /\ call.exc = "" /\ call.length = 16
    /\ chunks[call.ret].owner = NoOwner
    /\ Cardinality(TreeChunksOf(tree)) >= 4

\* the leaves and padding items render is given, in order
RenderedItems ==
    LET it == iter_padded(leaves, 1, 0, keys, Len(octets), pad_width).out
    IN  SelectSeq(it, LAMBDA x : x.k = "leaf")

ContentOf(item) == OctetsRender(octets, item.lo, item.hi)

\* length of the maximal run of identical lines that starts at item i
RECURSIVE RunLength(_, _)
RunLength(its, i) ==
    IF i < Len(its) /\ ContentOf(its[i + 1]) = ContentOf(its[i])
    THEN 1 + RunLength(its, i + 1)
    ELSE 1

\* the items from i on with every maximal run collapsed: its first line,
\* then the repeat marker when the run is longer than 1
RECURSIVE Collapsed(_, _)
Collapsed(its, i) ==
    IF i > Len(its) THEN <<>>
    ELSE LET k == RunLength(its, i)
         IN  (<<LineOut(its[i].lo, its[i].hi, ContentOf(its[i]))>>
                \o (IF k >= 2 THEN <<RepeatOut(k - 1)>> ELSE <<>>))
                \o Collapsed(its, i + k)

\* C13: OctetView.render emits every maximal run of k >= 2 identical
\* consecutive lines as one address-prefixed line followed by one repeat
\* marker with the count k - 1, a run of length 1 with no marker, and no
\* two consecutive emitted content lines are identical.
C13_RunsCollapsed ==
    rpc = "done" =>
       LET emitted == SelectSeq(lines, LAMBDA x : x.k # "mark")
           content == SelectSeq(lines, LAMBDA x : x.k = "line")
       IN  /\ emitted = Collapsed(RenderedItems, 1)
           /\ \A i \in 1..Len(content) - 1 :
                 content[i].line # content[i + 1].line

\* a rendering with a run of three or more identical lines and a later line
\* that stands alone
C13_Witness ==
    /\ rpc = "done"
    /\ \E i \in 1..Len(lines) :
          /\ lines[i].k = "repeat" /\ lines[i].n >= 2
          /\ \E j \in i + 1..Len(lines) :
                /\ lines[j].k = "line"
                /\ (j = Len(lines) \/ lines[j + 1].k # "repeat")

\* C14: every named marker point inside the buffer appears exactly once in
\* the output of OctetView.render, after every line of a range that ends at
\* or before its position and before every line of a range that starts at
\* or after it.
C14_MarkersInterleaved ==
    rpc = "done" =>
       \A m \in 1..Len(keys) :
          keys[m][1] < Len(octets) =>
             /\ Cardinality({j \in 1..Len(lines) :
                               lines[j] = MarkOut(keys[m][2])}) = 1
             /\ \A j \in 1..Len(lines) :
                   lines[j] = MarkOut(keys[m][2]) =>
                      \A i \in 1..Len(lines) :
                         lines[i].k = "line" =>
                            /\ lines[i].hi <= keys[m][1] => i < j
                            /\ lines[i].lo >= keys[m][1] => i > j

\* what self.__dict__ holds of a struct besides its fields
OwnAttrs == {<<"fields">>, <<"vertical">>, <<"lo">>, <<"hi">>, <<"tree">>,
             <<"args">>, <<"this">>, <<"ov_name">>}

FieldNamesOf(st) == {st.fields[i].name : i \in 1..Len(st.fields)}

Contiguous(st) ==
    /\ Len(st.fields) >= 1
    /\ st.fields[1].lo = st.lo
    /\ \A i \in 1..Len(st.fields) - 1 : st.fields[i + 1].lo = st.fields[i].hi
    /\ st.fields[Len(st.fields)].hi = st.hi

\* "before" finalized with target size S gives "after": S bytes, and the
\* residual, if any, as one more field that render does not show
TargetSize(before, after, S) ==
    LET n == Len(before.fields)
    IN  /\ after.hi - after.lo = S
        /\ S >= before.hi - before.lo
        /\ IF S = before.hi - before.lo
           THEN after.fields = before.fields
           ELSE /\ Len(after.fields) = n + 1
                /\ SubSeq(after.fields, 1, n) = before.fields
                /\ after.fields[n + 1].lo = before.hi
                /\ after.fields[n + 1].hi = after.lo + S
                /\ ~Shown(after.fields[n + 1].name)
        /\ StructRender(after).ret
              = SelectSeq([i \in 1..n |-> before.fields[i].name], Shown)

\* the struct the constructor call recorded in c has built when it gets
\* to "if not more"
Declared(c) ==
    StructNew(c.what[1], c.what[5], TRUE, 0, c.what[3], c.what[4]).st

\* C18: a finalized struct's fields are contiguous from lo to hi in the
\* order they were declared, and finalizing with a target size S makes the
\* struct span S bytes, the residual being one extra hidden field.
C18_FieldsContiguous ==
    [][ /\ (spc' = "built" /\ finalized') => Contiguous(struct')
        /\ (scall'.op = "add_field" /\ scall'.exc = "")
              => /\ struct'.fields = Append(struct.fields, scall'.ret[1])
                 /\ scall'.ret[1].lo = struct.hi
        /\ (scall'.op = "done" /\ scall'.exc = "" /\ scall'.pad # 0)
              => TargetSize(struct, struct', scall'.pad)
        /\ (scall'.op = "init" /\ scall'.exc = "" /\ finalized'
              /\ scall'.pad # 0)
              => TargetSize(Declared(scall'), struct', scall'.pad)
      ]_vars

\* a struct with fields was completed by done with a target size larger
\* than its fields
C18_Witness ==
    /\ spc = "built"
    /\ finalized
    /\ scall.op = "done"
    /\ scall.exc = ""
    /\ scall.pad = 6
    /\ Len(struct.fields) >= 3
    /\ ~Shown(struct.fields[Len(struct.fields)].name)
    /\ struct.hi - struct.lo = 6

\* bits 16k .. 16k+15 of a value, as a number
RECURSIVE BitsValue(_)
BitsValue(b) == IF b = <<>> THEN 0 ELSE b[1] + 2 * BitsValue(Tail(b))

Half(value, k) ==
    BitsValue(SubSeq(value, 16 * k + 1, Min(Len(value), 16 * k + 16)))

\* the value whose four bytes are, highest first, bytes i, j, k, l of the
\* field
IsBytes(value, i, j, k, l) ==
    /\ Len(value) <= 32
    /\ Half(value, 1) = 256 * mem[dlo + i + 1] + mem[dlo + j + 1]
    /\ Half(value, 0) = 256 * mem[dlo + k + 1] + mem[dlo + l + 1]

\* the field holds the bytes 01 02 03 04
Is1234 == SubSeq(mem, dlo + 1, dlo + 4) = <<1, 2, 3, 4>>

\* C19: Be32 decodes bytes b0 b1 b2 b3 to b0<<24|b1<<16|b2<<8|b3, Le32 to
\* b3<<24|b2<<16|b1<<8|b0, L2301 to b2<<24|b3<<16|b0<<8|b1, L1032 to
\* b1<<24|b0<<16|b3<<8|b2, each below 2^32; 01 02 03 04 gives 0x01020304,
\* 0x04030201, 0x03040102, 0x02010403.
C19_ByteOrders ==
    /\ dcls = "Be32" =>
          /\ IsBytes(dval, 0, 1, 2, 3)
          /\ Is1234 => (Half(dval, 1) = 258 /\ Half(dval, 0) = 772)
    /\ dcls = "Le32" =>
          /\ IsBytes(dval, 3, 2, 1, 0)
          /\ Is1234 => (Half(dval, 1) = 1027 /\ Half(dval, 0) = 513)
    /\ dcls = "L2301" =>
          /\ IsBytes(dval, 2, 3, 0, 1)
          /\ Is1234 => (Half(dval, 1) = 772 /\ Half(dval, 0) = 258)
    /\ dcls = "L1032" =>
          /\ IsBytes(dval, 1, 0, 3, 2)
          /\ Is1234 => (Half(dval, 1) = 513 /\ Half(dval, 0) = 1027)

\* L1032 has decoded 01 02 03 04 found at a non-zero offset
C19_Witness ==
    /\ dcls = "L1032"
    /\ dlo = 1
    /\ Is1234
    /\ Half(dval, 1) = 513

\* the positions of the heap bitstream [0, e) at which pattern occurs
Occurrences(s, e, pattern) ==
    {p \in Candidates(s, 0, e - Len(pattern), pattern) : OccursAt(s, p, pattern)}

\* the chunks of the heap that begin at MinStart or above
Hunted(H) ==
    {c \in {ChunkList(H.tree)[i] : i \in 1..Len(ChunkList(H.tree))} :
        H.chunks[c].begin >= MinStart}

Reported(begin, p) ==
    \E i \in 1..Len(orphans) :
        orphans[i].target = begin /\ orphans[i].address = p

\* C20: for every chunk that begins at 0x1000 or above, pointer hunting
\* reports every position of the heap bitstream [0, end) at which the 32
\* bit pattern of its begin occurs, whatever the partition into chunks.
C20_AllOccurrencesReported ==
    hpc = "hunted" =>
        \A c \in Hunted(Heap) :
            \A p \in Occurrences(stream, end, Pattern(chunks[c].begin)) :
                Reported(chunks[c].begin, p)

\* C21: when pondering has completed, the render pass visits every chunk
\* exactly once in strictly ascending start offset, each offset being the
\* sum of the lengths visited before it and the final sum being end, so
\* that neither assertion of render_chunks fails; a chunk with an owner is
\* rendered by its owner, a chunk without by the raw dump.
C21_RenderVisitsAll ==
    pc = "render" =>
        LET it == TreeIter(tree)
            r  == RenderLoop(it, 1, 0, <<>>)
        IN  /\ r.ok
            /\ r.loffset = end
            /\ Len(r.out) = Len(it)
            /\ {r.out[i][2] : i \in 1..Len(r.out)} = TreeChunksOf(tree)
            /\ \A i, j \in 1..Len(r.out) :
                  i < j => /\ r.out[i][1] < r.out[j][1]
                           /\ r.out[i][2] # r.out[j][2]
            /\ \A i \in 1..Len(r.out) :
                  /\ r.out[i][1] = chunks[r.out[i][2]].begin
                  /\ r.out[i][3] = chunks[r.out[i][2]].owner

\* the leaves and padding among what iter_padded yields
IsRange(item) == item.k = "leaf"
RangesOf(items) == SelectSeq(items, IsRange)

\* the ranges rs, in their order, tile [0, n) with non-empty ranges
Tiles(rs, n) ==
    /\ Len(rs) >= 1
    /\ rs[1].lo = 0
    /\ rs[Len(rs)].hi = n
    /\ \A i \in 1..Len(rs) : rs[i].lo < rs[i].hi
    /\ \A i \in 1..Len(rs) - 1 : rs[i].hi = rs[i + 1].lo

\* the range is one of the leaves of the index
IsIndexed(r) == \E n \in 1..Len(leaves) : r = LeafItem(leaves[n].lo, leaves[n].hi)

\* the range holds no multiple of w but, possibly, its first byte
InOneBlock(r, w) == (r.hi - 1) \div w = r.lo \div w

\* C22: for non-overlapping leaves and a nonzero pad width w, the ranges
\* iter_padded yields (leaves and padding) are ascending, pairwise disjoint
\* and cover [0, len(buffer)) exactly; every padding range is non-empty,
\* lies in a gap between leaves and does not cross a multiple of w.
C22_PaddedCovers ==
    [][ (rpc = "start" /\ rpc' = "loop") =>
          LET rs == RangesOf(todo')
          IN  /\ Tiles(rs, Len(octets))
              /\ \A n \in 1..Len(leaves) :
                    \E i \in 1..Len(rs) :
                        rs[i] = LeafItem(leaves[n].lo, leaves[n].hi)
              /\ \A i \in 1..Len(rs) :
                    ~IsIndexed(rs[i]) =>
                        /\ InOneBlock(rs[i], pad_width)
                        /\ \A n \in 1..Len(leaves) :
                              \/ rs[i].hi <= leaves[n].lo
                              \/ leaves[n].hi <= rs[i].lo
      ]_vars

\* iter_padded has padded the gap before a leaf at offset 3 with two
\* ranges, the first ending at the multiple of the pad width
C22_Witness ==
    /\ rpc = "loop"
    /\ lines = <<>>
    /\ Len(leaves) = 1
    /\ pad_width = 2
    /\ leaves[1].lo = 3
    /\ Len(RangesOf(todo)) = 3
    /\ RangesOf(todo)[1] = LeafItem(0, 2)
    /\ RangesOf(todo)[2] = LeafItem(2, 3)

\* the entries (offset, chunk) a tree holds, in the order of its iteration
EntrySet(t) == {TreeIter(t)[i] : i \in 1..Len(TreeIter(t))}

\* C23: delete(offset, chunk) removes exactly the entry (offset, chunk)
\* when the tree holds it, every other entry staying in place and found by
\* find; when the tree holds no entry of that offset, or holds another
\* chunk under it, delete fails with an assertion error and leaves the
\* tree as it was.
C23_DeleteExact ==
    [][ (tcall'.op = "delete" /\ nops' = nops + 1) =>
          LET e == <<tcall'.value, tcall'.payload>>
              Other(x) == x # e
          IN  IF e \in EntrySet(ttree)
              THEN /\ tcall'.exc = ""
                   /\ TreeIter(ttree') = SelectSeq(TreeIter(ttree), Other)
                   /\ EntrySet(ttree') = EntrySet(ttree) \ {e}
                   /\ \A x \in EntrySet(ttree') :
                         TreeFind(ttree', x[1]) = [off |-> x[1], ch |-> x[2]]
              ELSE /\ tcall'.exc = "AssertionError"
                   /\ ttree' = ttree
      ]_vars

\* an entry was deleted from below the root, two others staying
C23_Witness ==
    /\ tcall.op = "delete"
    /\ tcall.exc = ""
    /\ tcall.value = 128
    /\ EntrySet(ttree) = {<<0, 2>>, <<129, 3>>}

C24_ArrayWitness ==
    /\ spc = "built"
    /\ struct.cls = "Array"
    /\ ncalls >= 2
    /\ scall.op = "render"
    /\ Len(struct.fields) = 2
    /\ scall.ret = <<Line("array", << <<"f", "0">>, <<"f", "1">> >>, 0)>>

\* the start index st and the tree t hold the same offsets, each offset
\* with the same chunk in both, and that chunk begins at the offset
IndexIsTree(t, st, cs) ==
    LET it == TreeIter(t)
    IN  /\ DOMAIN st = {it[i][1] : i \in 1..Len(it)}
        /\ \A i \in 1..Len(it) : st[it[i][1]] = it[i][2]
        /\ \A i, j \in 1..Len(it) : it[i][1] = it[j][1] => i = j
        /\ \A k \in DOMAIN st : cs[st[k]].begin = k

\* this step has changed the heap
HeapChanges == <<tree, starts, chunks>>' # <<tree, starts, chunks>>

\* C25: after the seed and after any sequence of cut calls the keys of the
\* start index are exactly the offsets stored in the tree, each key maps in
\* both to the same chunk, and that chunk's begin equals the key.
C25_IndexIsTree ==
    [][ (InHeap' /\ HeapChanges) => IndexIsTree(tree', starts', chunks')
      ]_vars

\* two cuts that split, the second one at both ends, have left four chunks
C25_Witness ==
    /\ InHeap
    /\ ncuts >= 2
    /\ call.exc = ""
    /\ Cardinality(DOMAIN starts) >= 4
    /\ \E k \in DOMAIN starts : k # 0 /\ starts[k] = 1

\* the chunks still to visit in the pass under way
ToVisit == {snap[i] : i \in 1..Len(snap)}

\* a heuristic pass is under way
InPass ==
    \/ pc \in {"hunt_array", "hunt_strings"}
    \/ pc = "dissect" /\ who \in {"ArrayString", "String"}

\* C26: the chunks a heuristic pass visits are fixed when the pass begins:
\* a heuristic is invoked only on a chunk without owner at that moment,
\* chunks made by splits during a pass are not visited in that pass, and
\* the string-hunting pass begins only when the array-string pass is over
\* and the artifact has at most 100000 bytes.
C26_PassOverSnapshot ==
    [][ /\ (who' \in {"ArrayString", "String"} /\ who = "nobody") =>
              /\ snap # <<>>
              /\ held' = Head(snap)
              /\ chunks[held'].owner = NoOwner
              /\ who' = (IF pc = "hunt_array" THEN "ArrayString" ELSE "String")
        /\ (InPass /\ InPass') =>
              /\ \/ snap' = snap
                 \/ snap # <<>> /\ snap' = Tail(snap)
                 \/ /\ passes' # passes
                    /\ snap' = ChunkList(tree)
              /\ \A c \in (Len(chunks) + 1)..Len(chunks') : c \notin ToVisit'
        /\ (passes' # passes /\ passes # <<>>) =>
              /\ passes = <<"hunt_array_strings">>
              /\ passes' = <<"hunt_array_strings", "hunt_strings">>
              /\ pc = "hunt_array" /\ snap = <<>> /\ who = "nobody"
              /\ art.len <= HuntCeil
        /\ (pc' = "hunt_strings" \/ who' = "String") =>
              /\ art.len <= HuntCeil
              /\ passes' = <<"hunt_array_strings", "hunt_strings">>
      ]_vars

\* the array-string heuristic, invoked on the one chunk without owner, has
\* split it; the pass is over and has left the new pieces unvisited
C26_Witness ==
    /\ pc = "hunt_array"
    /\ snap = <<>>
    /\ invoked = {"ArrayString"}
    /\ passes = <<"hunt_array_strings">>
    /\ art.len <= HuntCeil
    /\ \E c \in TreeChunksOf(tree) : c > 2 /\ chunks[c].owner = NoOwner

\* C27: a call of cut that raises MisFit leaves the chunk set as it was
\* before the call: the same chunks with the same ranges, the same tree
\* and the same start index.
C27_MisFitChangesNothing ==
    [][ (IsCutStep /\ call'.exc = "MisFit") =>
          /\ tree' = tree
          /\ starts' = starts
          /\ chunks' = chunks
      ]_vars

\* the chunks of the chunk set that have an owner
Owned == {c \in TreeChunksOf(tree) : chunks[c].owner # NoOwner}

\* C28: a chunk that has an owner keeps its begin and its length through
\* every later call of cut, stays in the tree and in the start index under
\* the same offset, and the set of chunk start offsets only grows.
C28_OwnedRangeFixed ==
    [][ (InHeap /\ InHeap' /\ HeapChanges) =>
          \A pre \in {TreeIter(tree)}, post \in {TreeIter(tree')} :
              /\ \A i \in 1..Len(pre) :
                    LET c == pre[i][2]
                    IN  chunks[c].owner # NoOwner =>
                          /\ chunks'[c].begin = chunks[c].begin
                          /\ chunks'[c].bits = chunks[c].bits
                          /\ chunks'[c].owner = chunks[c].owner
                          /\ \E j \in 1..Len(post) :
                                post[j] = <<chunks[c].begin, c>>
                          /\ StartsGet(starts', chunks[c].begin) = c
              /\ \A i \in 1..Len(pre) :
                    \E j \in 1..Len(post) : post[j][1] = pre[i][1]
              /\ DOMAIN starts \subseteq DOMAIN starts'
              /\ Len(chunks) <= Len(chunks')
      ]_vars

\* the heap head has its owner, and a later cut has split the chunk that
\* follows it at both ends
C28_Witness ==
    /\ InHeap
    /\ ncuts >= 2
    /\ call.exc = ""
    /\ call.length = 16
    /\ Cardinality(Owned) >= 1
    /\ Cardinality(TreeChunksOf(tree)) >= 4
    /\ \E c \in Owned : chunks[c].begin = 0 /\ ChunkLen(chunks[c]) = HeadBits

\* the bit string the one chunk is seeded with: the first end bits of the
\* artifact, or all its bits when it has fewer
SeededBits == BitsPrefix([lo |-> 0, hi |-> 8 * art.len], art.x + EndPad)

\* C29: after the seed and after any sequence of cut calls each chunk's
\* bit string is the slice [begin, begin + len) of the seeded bit string,
\* and the chunks' bit strings concatenated in address order are the
\* seeded bit string.
C29_BitsAreSlices ==
    [][ (InHeap' /\ HeapChanges) =>
          \A S \in {TreeChunksOf(tree')} :
              /\ \A c \in S :
                    /\ chunks'[c].bits.lo = chunks'[c].begin
                    /\ chunks'[c].bits.hi
                          = chunks'[c].begin + ChunkLen(chunks'[c])
                    /\ SeededBits.lo <= chunks'[c].bits.lo
                    /\ chunks'[c].bits.hi <= SeededBits.hi
              /\ Partitions(chunks', S, SeededBits.lo, SeededBits.hi)
      ]_vars

\* a chunk has been split at both ends after the heap head was cut off,
\* by a cut at an offset inside it
C29_Witness ==
    /\ InHeap
    /\ ncuts >= 2
    /\ call.exc = ""
    /\ call.where = 144
    /\ call.length = 16
    /\ chunks[call.ret].bits = [lo |-> 144, hi |-> 160]
    /\ \E c \in TreeChunksOf(tree) : chunks[c].bits.lo = 160
    /\ \E c \in TreeChunksOf(tree) : chunks[c].bits = [lo |-> 128, hi |-> 144]

====
